---------------------------- MODULE Spec2Model ----------------------------
(***************************************************************************)
(* Model of the Bybit P2P monitor: the ETL step of P2PService              *)
(* (processAndStoreP2PData, upsertDimensionData, insertFactData), the      *)
(* data-access models it writes through, the Database wrapper's connection *)
(* state, the trigger handler of P2PController (SELL, pause, BUY) and the  *)
(* retention sweep (cleanupOldData).                                       *)
(*                                                                         *)
(* Every `await db.run(...)` of the code is one step of the model: the     *)
(* statement is executed atomically by the store in autocommit mode, and   *)
(* other handlers of the same process may run between two steps.           *)
(***************************************************************************)
EXTENDS Integers, Sequences, FiniteSets, TLC

(***************************************************************************)
(* Bounds of the model.                                                    *)
(***************************************************************************)
\* The wall clock (milliseconds in the code) runs over 0..MaxTime.
MaxTime == 2
\* The longest page (result.items) the upstream returns.
MaxPage == 2
\* The largest retentionDays a cleanup request carries.
MaxRetentionDays == 1
\* The longest tokenPairs array a monitor request carries.
MaxPairs == 2

(***************************************************************************)
(* Program constants.                                                      *)
(***************************************************************************)
TRADE_SIDE_SELL == 0
TRADE_SIDE_BUY == 1

\* One retention day in clock units (scaled down from 86,400,000 ms).
DayTicks == 1

Handlers == {1, 2}

(***************************************************************************)
(* Raw upstream records (BybitP2POffer), reduced to the fields the ETL     *)
(* step branches on or stores.  Strings stay strings: the conversions      *)
(* below turn them into numbers as the code does.                          *)
(***************************************************************************)
\* The value standing for "the conversion threw / returned NaN".
NaB == 0 - 1

BigIntOf(s) ==
    CASE s = "1" -> 1
      [] s = "2" -> 2
      [] OTHER   -> NaB

parseInt(s) ==
    CASE s = "165" -> 165
      [] s = "14"  -> 14
      [] OTHER     -> NaB

\* parseFloat of a string; NaB stands for NaN.
parseFloat(s) ==
    CASE s = "0" -> 0
      [] s = "1" -> 1
      [] s = "2" -> 2
      [] s = "3" -> 3
      [] OTHER   -> NaB

\* The value of item.f as JavaScript reads it: undefined when the raw record
\* lacks the field.  A record lists the fields it lacks in `absent`.
Undefined == "undefined"
Field(item, f) == IF f \in item.absent THEN Undefined ELSE item[f]

\* s || '0'
OrZero(s) == IF s = Undefined \/ s = "" THEN "0" ELSE s

\* A full record: symbolInfo, one payment method, trading preferences.
ItemA == [id |-> "1", userId |-> "1", nickName |-> "a", blocked |-> "N",
          price |-> "1", premium |-> "2", absent |-> {},
          side |-> 0, payments |-> <<"165">>,
          symbolInfo |-> TRUE, tradingPreferenceSet |-> TRUE,
          lastLogoutTime |-> <<"9", "0">>]
\* The same offer sighted again with other attributes; the payment id is
\* listed twice; no symbolInfo and no tradingPreferenceSet.
ItemB == [id |-> "1", userId |-> "1", nickName |-> "b", blocked |-> "Y",
          price |-> "2", premium |-> "", absent |-> {},
          side |-> 0, payments |-> <<"165", "165">>,
          symbolInfo |-> FALSE, tradingPreferenceSet |-> FALSE,
          lastLogoutTime |-> <<>>]
\* A record whose id is not an integer literal: BigInt(item.id) throws.
ItemX == [id |-> "x", userId |-> "2", nickName |-> "c", blocked |-> "N",
          price |-> "3", premium |-> "0", absent |-> {},
          side |-> 1, payments |-> <<>>,
          symbolInfo |-> FALSE, tradingPreferenceSet |-> TRUE,
          lastLogoutTime |-> <<"9">>]

Items == {ItemA, ItemB, ItemX}

\* The records whose ids convert.
WellFormed == {ItemA, ItemB}

\* Records of doubtful quality: ItemA with one field changed or lacking.
ItemSide1 == [ItemA EXCEPT !.side = 1]
ItemSide2 == [ItemA EXCEPT !.side = 2]
ItemNoSide == [ItemA EXCEPT !.absent = {"side"}]
ItemNoPrice == [ItemA EXCEPT !.absent = {"price"}]
ItemEmptyPrice == [ItemA EXCEPT !.price = ""]
ItemBadPrice == [ItemA EXCEPT !.price = "abc"]
ItemNoPremium == [ItemA EXCEPT !.absent = {"premium"}]

QualityItems ==
    {ItemA, ItemB, ItemSide1, ItemSide2, ItemNoSide, ItemNoPrice,
     ItemEmptyPrice, ItemBadPrice, ItemNoPremium}

SeqsUpTo(S, n) == UNION {[1..k -> S] : k \in 0..n}

(***************************************************************************)
(* P2PService.parseValidDate.  A date string is a sequence of one-character *)
(* strings.  An instant is the decimal numeral of its milliseconds since    *)
(* the epoch: a sequence of digits without leading zeros, <<>> for zero, so *)
(* that values beyond the range of a Date can be written.                   *)
(***************************************************************************)
DigitChars == {"0", "1", "2", "3", "4", "5", "6", "7", "8", "9"}

DigitOf(c) ==
    CASE c = "0" -> 0 [] c = "1" -> 1 [] c = "2" -> 2 [] c = "3" -> 3
      [] c = "4" -> 4 [] c = "5" -> 5 [] c = "6" -> 6 [] c = "7" -> 7
      [] c = "8" -> 8 [] c = "9" -> 9

RECURSIVE Strip(_)
Strip(ds) == IF ds = <<>> \/ ds[1] # 0 THEN ds ELSE Strip(Tail(ds))

RECURSIVE Numeral(_)
Numeral(n) == IF n = 0 THEN <<>> ELSE Append(Numeral(n \div 10), n % 10)

\* dateString.match(/^\d+$/)
DigitsOnly(s) == Len(s) > 0 /\ \A i \in 1..Len(s) : s[i] \in DigitChars

\* Number(dateString) of a string of digits.
NumberOf(s) == Strip([i \in 1..Len(s) |-> DigitOf(s[i])])

\* The digits read as milliseconds.
SecondsToMs_AsMillis(n) == n

\* numericValue * 1000
SecondsToMs(n) == IF n = <<>> THEN <<>> ELSE n \o <<0, 0, 0>>

NumeralLeq(a, b) ==
    \/ Len(a) < Len(b)
    \/ /\ Len(a) = Len(b)
       /\ \/ a = b
          \/ \E i \in 1..Len(a) :
                /\ \A j \in 1..(i - 1) : a[j] = b[j]
                /\ a[i] < b[i]

\* The largest time value of a Date: 8.64e15 ms; beyond it the Date is invalid.
MaxDateMs == <<8, 6, 4, 0, 0, 0, 0, 0, 0, 0, 0, 0, 0, 0, 0, 0>>

DateOf(ms) == [defined |-> TRUE, ms |-> ms]
UndefinedDate == [defined |-> FALSE, ms |-> <<>>]

\* new Date(ms) followed by the isNaN(date.getTime()) test.
ValidDateOf(ms) == IF NumeralLeq(ms, MaxDateMs) THEN DateOf(ms) ELSE UndefinedDate

\* new Date(dateString) for the strings "1970-01-01THH:MM:SSZ"; any other
\* string of the model is not a date.
EpochDay == <<"1", "9", "7", "0", "-", "0", "1", "-", "0", "1", "T">>

TwoDigits(s, i) == 10 * DigitOf(s[i]) + DigitOf(s[i + 1])

IsIsoTime(s) ==
    /\ Len(s) = 20
    /\ SubSeq(s, 1, 11) = EpochDay
    /\ \A i \in {12, 13, 15, 16, 18, 19} : s[i] \in DigitChars
    /\ s[14] = ":" /\ s[17] = ":" /\ s[20] = "Z"
    /\ TwoDigits(s, 12) < 24 /\ TwoDigits(s, 15) < 60 /\ TwoDigits(s, 18) < 60

DateParse(s) ==
    IF IsIsoTime(s)
    THEN DateOf(Numeral(((TwoDigits(s, 12) * 60 + TwoDigits(s, 15)) * 60
                         + TwoDigits(s, 18)) * 1000))
    ELSE UndefinedDate

parseValidDate(dateString) ==
    IF DigitsOnly(dateString)
    THEN ValidDateOf(SecondsToMs(NumberOf(dateString)))
    ELSE DateParse(dateString)

\* The date strings tried: strings of the digits 0 and 9, the two strings
\* around the largest time value, times of the epoch day, and two non-dates.
MaxDigits == 13

DigitStrings == UNION {[1..n -> {"0", "9"}] : n \in 1..MaxDigits}

LastValidSeconds == <<"8", "6", "4", "0", "0", "0", "0", "0", "0", "0", "0", "0", "0">>
FirstInvalidSeconds == <<"8", "6", "4", "0", "0", "0", "0", "0", "0", "0", "0", "0", "1">>

DigitChar(d) == CHOOSE c \in DigitChars : DigitOf(c) = d

\* The ISO-8601 string of the instant v seconds after the epoch, v < 86400.
IsoStringOf(v) ==
    EpochDay
    \o <<DigitChar((v \div 3600) \div 10), DigitChar((v \div 3600) % 10), ":">>
    \o <<DigitChar(((v \div 60) % 60) \div 10), DigitChar(((v \div 60) % 60) % 10), ":">>
    \o <<DigitChar((v % 60) \div 10), DigitChar((v % 60) % 10), "Z">>

IsoSeconds == {0, 9, 90, 99, 900, 909, 990, 999, 9000, 9009, 9090, 9099, 9900, 9909, 9990, 9999}

DateStrings ==
    DigitStrings
    \cup {LastValidSeconds, FirstInvalidSeconds}
    \cup {IsoStringOf(v) : v \in IsoSeconds}
    \cup {<<>>, <<"a", "b", "c">>}

\* Records of a second offer: three payment ids, one of them twice, no
\* tradingPreferenceSet, the last logout given as a date string; the same
\* with a last logout that is no date, and with no payments field.
ItemC == [id |-> "2", userId |-> "2", nickName |-> "c", blocked |-> "N",
          price |-> "3", premium |-> "0", absent |-> {},
          side |-> 1, payments |-> <<"165", "14", "165">>,
          symbolInfo |-> FALSE, tradingPreferenceSet |-> FALSE,
          lastLogoutTime |-> IsoStringOf(9)]
ItemBadLogout == [ItemC EXCEPT !.lastLogoutTime = <<"a", "b", "c">>]
ItemNoPayments == [ItemC EXCEPT !.absent = {"payments"}]
\* The first offer with an empty payments list.
ItemEmptyPayments == [ItemA EXCEPT !.payments = <<>>]

RecordItems ==
    {ItemA, ItemC, ItemBadLogout, ItemNoPayments, ItemEmptyPayments}

(***************************************************************************)
(* State.                                                                  *)
(***************************************************************************)
VARIABLES
    now,          \* the latest reading of the wall clock (`new Date()`)
    isConnected,  \* Database.isConnected
    database,     \* Database.instance and .connection, and what connect/close last did
    store,        \* the DuckDB tables, one field per table
    phase,        \* per handler: where P2PController.fetchP2PData stands
    pc,           \* per handler: where its processAndStoreP2PData call stands
    fetchTime,    \* per handler: fetchTime of the call
    page,         \* per handler: data.result.items of the call
    idx,          \* per handler: index of the record being stored
    todo,         \* per handler: statements of the record still to run
    wlog,         \* per handler: statements run so far for the current record
    err,          \* per handler: the error the call threw
    reply,        \* per handler: ret_code and ret_msg the upstream answered
    requests,     \* per handler: outbound requests the call has issued
    cleanup,      \* the cleanupOldData call: its cutoffs and pending deletes
    pair,         \* monitorTokenPairs: elements of tokenPairs left, the current one first
    dateString,   \* item.lastLogoutTime of the record being normalized
    parsed,       \* the value its last_logout was given, once computed
    request,      \* the read request last served: its endpoint and arguments
    response,     \* the envelope it was answered with
    taken         \* history: the fetchTime every call made so far has taken

vars == <<now, isConnected, store, phase, pc, fetchTime, page, idx, todo,
          wlog, err, reply, requests, cleanup, pair, dateString, parsed,
          request, response, taken, database>>

readVars == <<request, response>>

dateVars == <<dateString, parsed>>

callVars == <<pc, fetchTime, page, idx, todo, wlog, err, reply, requests>>

\* The wrapper after a connect() that succeeded: instance and connection are
\* set, and in order DuckDBInstance.create, instance.connect and the schema
\* initialization were called.
Connected ==
    [instance |-> TRUE, connection |-> TRUE, last |-> "connected",
     calls |-> <<"create", "connect", "initializeSchema">>]

\* The wrapper after a close() that completed: both references are null, and
\* closeSync was called on the connection and on the instance.
Closed ==
    [instance |-> FALSE, connection |-> FALSE, last |-> "closed",
     calls |-> <<"connection.closeSync", "instance.closeSync">>]

\* Variant: the flag is not consulted.
isConnectionActive_ConnectionOnly == database.connection

\* Database.isConnectionActive
isConnectionActive == isConnected /\ database.connection

Put(f, k, v) == [x \in (DOMAIN f) \cup {k} |-> IF x = k THEN v ELSE f[x]]

EmptyStore ==
    [p2p_offers          |-> <<>>,
     offer_payments      |-> {},
     trading_preferences |-> <<>>,
     p2p_users           |-> <<>>,
     payment_methods     |-> <<>>,
     symbol_info         |-> <<>>,
     assets              |-> {}]

(***************************************************************************)
(* The data-access models: what each SQL statement does to its table.      *)
(* Each returns whether the statement succeeded and the table after it.    *)
(***************************************************************************)
\* Variant: last_logout declared NOT NULL.
P2POfferModel_create_LogoutRequired(tbl, key, row) ==
    IF key \in DOMAIN tbl \/ ~row.last_logout.defined
    THEN [ok |-> FALSE, tbl |-> tbl]
    ELSE [ok |-> TRUE, tbl |-> Put(tbl, key, row)]

\* Variant: the statement written INSERT OR IGNORE.
P2POfferModel_create_Ignore(tbl, key, row) ==
    IF key \in DOMAIN tbl
    THEN [ok |-> TRUE, tbl |-> tbl]
    ELSE [ok |-> TRUE, tbl |-> Put(tbl, key, row)]

\* Variant: the statement written INSERT OR REPLACE.
P2POfferModel_create_Replace(tbl, key, row) ==
    [ok |-> TRUE, tbl |-> Put(tbl, key, row)]

\* INSERT INTO p2p_offers ... with PRIMARY KEY (fetch_time, offer_id).
P2POfferModel_create(tbl, key, row) ==
    IF key \in DOMAIN tbl
    THEN [ok |-> FALSE, tbl |-> tbl]
    ELSE [ok |-> TRUE, tbl |-> Put(tbl, key, row)]

\* Variant: a plain INSERT, which rejects a triple already present.
OfferPaymentModel_create_Strict(tbl, key) ==
    IF key \in tbl
    THEN [ok |-> FALSE, tbl |-> tbl]
    ELSE [ok |-> TRUE, tbl |-> tbl \cup {key}]

\* INSERT OR IGNORE INTO offer_payments ...
OfferPaymentModel_create(tbl, key) ==
    [ok |-> TRUE, tbl |-> tbl \cup {key}]

\* INSERT OR REPLACE INTO trading_preferences ...
TradingPreferencesModel_create(tbl, key, row) ==
    [ok |-> TRUE, tbl |-> Put(tbl, key, row)]

\* Variant: an existing row keeps its blocked flag (a column-wise update).
P2PUserModel_upsert_Merge(tbl, key, row) ==
    IF key \in DOMAIN tbl
    THEN [ok |-> TRUE,
          tbl |-> Put(tbl, key, [row EXCEPT !.blocked = tbl[key].blocked])]
    ELSE [ok |-> TRUE, tbl |-> Put(tbl, key, row)]

\* INSERT OR REPLACE INTO p2p_users ...
P2PUserModel_upsert(tbl, key, row) ==
    [ok |-> TRUE, tbl |-> Put(tbl, key, row)]

\* INSERT OR REPLACE INTO payment_methods ...
PaymentMethodModel_upsert(tbl, key, row) ==
    [ok |-> TRUE, tbl |-> Put(tbl, key, row)]

\* INSERT OR REPLACE INTO symbol_info ...
SymbolInfoModel_upsert(tbl, key, row) ==
    [ok |-> TRUE, tbl |-> Put(tbl, key, row)]

\* INSERT OR REPLACE INTO assets ...
AssetModel_upsert(tbl, key) ==
    [ok |-> TRUE, tbl |-> tbl \cup {key}]

(***************************************************************************)
(* The statements one record makes the service run, in program order.      *)
(* A statement is [op, key, val]; op "throw" stands for an exception       *)
(* raised while the statement's parameters are built.                      *)
(***************************************************************************)
Stmt(op, key, val) == [op |-> op, key |-> key, val |-> val]

Throw == Stmt("throw", 0, 0)

SymbolId == "1"
TokenId == "USDT"
CurrencyId == "USD"

\* Variant: only the first payment id gets its payment_methods row.
PaymentMethodUpserts_FirstOnly(ps) ==
    IF ps = <<>> THEN <<>>
    ELSE <<Stmt("payment_methods", parseInt(Head(ps)), Head(ps))>>

RECURSIVE PaymentMethodUpserts(_)
PaymentMethodUpserts(ps) ==
    IF ps = <<>> THEN <<>>
    ELSE <<Stmt("payment_methods", parseInt(Head(ps)), Head(ps))>>
         \o PaymentMethodUpserts(Tail(ps))

RECURSIVE OfferPaymentInserts(_, _, _)
OfferPaymentInserts(ft, id, ps) ==
    IF ps = <<>> THEN <<>>
    ELSE <<Stmt("offer_payments", <<ft, id, parseInt(Head(ps))>>, 0)>>
         \o OfferPaymentInserts(ft, id, Tail(ps))

\* item.payments && item.payments.length > 0 ? item.payments : nothing
PaymentsOf(item) == IF "payments" \in item.absent THEN <<>> ELSE item.payments

upsertDimensionData(item, ft) ==
    (IF item.symbolInfo
       THEN <<Stmt("symbol_info", BigIntOf(SymbolId), <<TokenId, CurrencyId>>)>>
       ELSE <<>>)
    \o (IF BigIntOf(item.userId) = NaB
          THEN <<Throw>>
          ELSE <<Stmt("p2p_users", BigIntOf(item.userId),
                      [nick_name |-> item.nickName,
                       blocked   |-> item.blocked = "Y"])>>)
    \o PaymentMethodUpserts(PaymentsOf(item))
    \o <<Stmt("assets", TokenId, 0), Stmt("assets", CurrencyId, 0)>>

\* const p2pOffer: P2POffer = {...}: the columns of the fact row.
P2POfferOf(item) ==
    [user_id |-> BigIntOf(item.userId),
     side    |-> IF "side" \in item.absent THEN 0 ELSE item.side,
     price   |-> parseFloat(Field(item, "price")),
     premium |-> parseFloat(OrZero(Field(item, "premium"))),
     last_logout |-> IF "lastLogoutTime" \in item.absent
                        \/ item.lastLogoutTime = <<>>
                     THEN UndefinedDate
                     ELSE parseValidDate(item.lastLogoutTime)]

\* Variant: the dependent rows written before the fact row.
insertFactData_DependentsFirst(item, ft) ==
    IF BigIntOf(item.id) = NaB
    THEN <<Throw>>
    ELSE OfferPaymentInserts(ft, BigIntOf(item.id), PaymentsOf(item))
         \o (IF item.tradingPreferenceSet
               THEN <<Stmt("trading_preferences", <<ft, BigIntOf(item.id)>>,
                           item.nickName)>>
               ELSE <<>>)
         \o <<Stmt("p2p_offers", <<ft, BigIntOf(item.id)>>, P2POfferOf(item))>>

\* Variant: item.tradingPreferenceSet read without the test for its presence.
insertFactData_PrefsRequired(item, ft) ==
    IF BigIntOf(item.id) = NaB
    THEN <<Throw>>
    ELSE <<Stmt("p2p_offers", <<ft, BigIntOf(item.id)>>, P2POfferOf(item))>>
         \o OfferPaymentInserts(ft, BigIntOf(item.id), PaymentsOf(item))
         \o (IF item.tradingPreferenceSet
               THEN <<Stmt("trading_preferences", <<ft, BigIntOf(item.id)>>,
                           item.nickName)>>
               ELSE <<Throw>>)

insertFactData(item, ft) ==
    IF BigIntOf(item.id) = NaB
    THEN <<Throw>>
    ELSE <<Stmt("p2p_offers", <<ft, BigIntOf(item.id)>>, P2POfferOf(item))>>
         \o OfferPaymentInserts(ft, BigIntOf(item.id), PaymentsOf(item))
         \o (IF item.tradingPreferenceSet
               THEN <<Stmt("trading_preferences", <<ft, BigIntOf(item.id)>>,
                           item.nickName)>>
               ELSE <<>>)

\* Variant: insertFactData awaited before upsertDimensionData.
RecordStatements_FactsFirst(item, ft) ==
    insertFactData(item, ft) \o upsertDimensionData(item, ft)

\* The body of the for loop of processAndStoreP2PData for one record.
RecordStatements(item, ft) ==
    upsertDimensionData(item, ft) \o insertFactData(item, ft)

(***************************************************************************)
(* Database.run: one statement against the store.                          *)
(***************************************************************************)
ModelCall(s, st) ==
    CASE s.op = "p2p_offers" ->
           P2POfferModel_create(st.p2p_offers, s.key, s.val)
      [] s.op = "offer_payments" ->
           OfferPaymentModel_create(st.offer_payments, s.key)
      [] s.op = "trading_preferences" ->
           TradingPreferencesModel_create(st.trading_preferences, s.key, s.val)
      [] s.op = "p2p_users" ->
           P2PUserModel_upsert(st.p2p_users, s.key, s.val)
      [] s.op = "payment_methods" ->
           PaymentMethodModel_upsert(st.payment_methods, s.key, s.val)
      [] s.op = "symbol_info" ->
           SymbolInfoModel_upsert(st.symbol_info, s.key, s.val)
      [] s.op = "assets" ->
           AssetModel_upsert(st.assets, s.key)

\* Variant: a statement issued on a closed connection is dropped silently.
DatabaseRun_DropWhenClosed(s, st, connected) ==
    IF s.op = "throw" THEN [err |-> "NormalizationError", store |-> st]
    ELSE IF ~connected THEN [err |-> "", store |-> st]
    ELSE LET r == ModelCall(s, st) IN
         IF ~r.ok THEN [err |-> "DuplicateKey", store |-> st]
         ELSE [err |-> "", store |-> [st EXCEPT ![s.op] = r.tbl]]

\* The outcome of running statement s: [err, store].  err = "" on success.
DatabaseRun(s, st, connected) ==
    IF s.op = "throw" THEN [err |-> "NormalizationError", store |-> st]
    ELSE IF ~connected THEN [err |-> "StoreUnavailable", store |-> st]
    ELSE LET r == ModelCall(s, st) IN
         IF ~r.ok THEN [err |-> "DuplicateKey", store |-> st]
         ELSE [err |-> "", store |-> [st EXCEPT ![s.op] = r.tbl]]

(***************************************************************************)
(* The read queries.  A price is a whole number of price units; an average *)
(* is kept as [sum, count], a spread as [num, den], so that no rounding is *)
(* modelled.                                                               *)
(***************************************************************************)
\* One hour in clock units (scaled down from 3,600,000 ms).
HourTicks == 2

\* The width of the bucket DATE_TRUNC(interval, ...) truncates to.
IntervalTicks(interval) ==
    CASE interval = "hour" -> HourTicks
      [] interval = "day"  -> 24 * HourTicks

DATE_TRUNC(interval, t) == (t \div IntervalTicks(interval)) * IntervalTicks(interval)

Min(S) == CHOOSE x \in S : \A y \in S : x <= y
Max(S) == CHOOSE x \in S : \A y \in S : y <= x

\* ORDER BY ... (ascending) of a set of numbers.
RECURSIVE Ascending(_)
Ascending(S) == IF S = {} THEN <<>> ELSE <<Min(S)>> \o Ascending(S \ {Min(S)})

\* ORDER BY ... DESC.
RECURSIVE Descending(_)
Descending(S) == IF S = {} THEN <<>> ELSE <<Max(S)>> \o Descending(S \ {Max(S)})

\* The sum of f over the rows S.
RECURSIVE SumOf(_, _)
SumOf(f, S) ==
    IF S = {} THEN 0
    ELSE LET k == CHOOSE x \in S : TRUE IN f[k] + SumOf(f, S \ {k})

AVG(f, S) == [sum |-> SumOf(f, S), count |-> Cardinality(S)]

\* Variant: the fact rows are read without the join.
OffersJoinPayments_NoJoin(st, methodId) == DOMAIN st.p2p_offers

\* FROM p2p_offers o JOIN offer_payments op
\*   ON o.fetch_time = op.fetch_time AND o.offer_id = op.offer_id
\* WHERE op.method_id = ?
\* The keys of the fact rows that have a bridge row for the method.
OffersJoinPayments(st, methodId) ==
    {k \in DOMAIN st.p2p_offers : <<k[1], k[2], methodId>> \in st.offer_payments}

getPriceAggregationsByIntervalAndPayment(st, tokenId, currencyId, side, paymentMethodId, interval, startTime, endTime) ==
    LET rows == {k \in OffersJoinPayments(st, paymentMethodId) :
                    /\ st.p2p_offers[k].token_id = tokenId
                    /\ st.p2p_offers[k].currency_id = currencyId
                    /\ st.p2p_offers[k].side = side
                    /\ k[1] >= startTime
                    /\ k[1] <= endTime}
        price == [k \in rows |-> st.p2p_offers[k].price]
        time_buckets == Ascending({DATE_TRUNC(interval, k[1]) : k \in rows})
        group(b) == {k \in rows : DATE_TRUNC(interval, k[1]) = b}
    IN  [i \in 1..Len(time_buckets) |->
            [time_bucket |-> time_buckets[i],
             avg_price   |-> AVG(price, group(time_buckets[i])),
             min_price   |-> Min({price[k] : k \in group(time_buckets[i])}),
             max_price   |-> Max({price[k] : k \in group(time_buckets[i])}),
             offer_count |-> Cardinality(group(time_buckets[i]))]]

\* P2PService.getPriceAggregations; t is the reading of `new Date()`.
getPriceAggregations(st, tokenId, currencyId, side, interval, hours, t) ==
    getPriceAggregationsByIntervalAndPayment(
        st, tokenId, currencyId, side, 165, interval, t - hours * HourTicks, t)

\* The envelopes of the controller.
NoRequest == [op |-> "none", tokenId |-> "", currencyId |-> "", side |-> 0,
              interval |-> "", hours |-> 0, limit |-> 0]
NoResponse == [success |-> FALSE, message |-> "", data |-> <<>>]
Ok(data) == [success |-> TRUE, message |-> "", data |-> data]
Failure(message) == [success |-> FALSE, message |-> message, data |-> <<>>]

\* Database.ensureConnection: new Error('Database connection is not active')
NotActive == "Database connection is not active"

\* The LIMIT getMarketSummary passes (scaled down from 1000).
SummaryLimit == 4

\* The first n rows of S ORDER BY fetch_time DESC.  Rows of equal
\* fetch_time come in an order SQL leaves open.
RECURSIVE NewestFirst(_, _)
NewestFirst(S, n) ==
    IF S = {} \/ n = 0 THEN <<>>
    ELSE LET k == CHOOSE x \in S : \A y \in S : y[1] <= x[1]
         IN  <<k>> \o NewestFirst(S \ {k}, n - 1)

\* OfferPaymentModel.getOffersByPaymentMethod: the keys of the rows returned.
getOffersByPaymentMethod(st, methodId, limit) ==
    NewestFirst(OffersJoinPayments(st, methodId), limit)

\* One side of the summary: count, avg_price, min_price, max_price.
SideSummary(st, rows) ==
    LET price == [k \in rows |-> st.p2p_offers[k].price]
    IN  [count     |-> Cardinality(rows),
         avg_price |-> IF rows # {} THEN AVG(price, rows)
                       ELSE [sum |-> 0, count |-> 1],
         min_price |-> IF rows # {} THEN Min({price[k] : k \in rows}) ELSE 0,
         max_price |-> IF rows # {} THEN Max({price[k] : k \in rows}) ELSE 0]

\* Variant: the spread computed whenever there is a BUY maximum.
Spread_Unguarded(sell_min, buy_max) ==
    IF buy_max # 0
    THEN [num |-> (sell_min - buy_max) * 100, den |-> buy_max]
    ELSE [num |-> 0, den |-> 1]

\* summary.spread: 0, or ((sell min - buy max) / buy max) * 100.
Spread(sell_min, buy_max) ==
    IF sell_min > 0 /\ buy_max > 0
    THEN [num |-> (sell_min - buy_max) * 100, den |-> buy_max]
    ELSE [num |-> 0, den |-> 1]

\* P2PService.getMarketSummary; t is the reading of `new Date()`.
getMarketSummary(st, tokenId, currencyId, t) ==
    LET startTime == t - 24 * HourTicks
        tbcOffers == getOffersByPaymentMethod(st, 165, SummaryLimit)
        filtered(side) ==
            {k \in {tbcOffers[i] : i \in 1..Len(tbcOffers)} :
                /\ st.p2p_offers[k].token_id = tokenId
                /\ st.p2p_offers[k].currency_id = currencyId
                /\ st.p2p_offers[k].side = side
                /\ k[1] >= startTime
                /\ k[1] <= t}
        buy_offers  == SideSummary(st, filtered(TRADE_SIDE_BUY))
        sell_offers == SideSummary(st, filtered(TRADE_SIDE_SELL))
    IN  [token_id    |-> tokenId,
         currency_id |-> currencyId,
         buy_offers  |-> buy_offers,
         sell_offers |-> sell_offers,
         spread      |-> Spread(sell_offers.min_price, buy_offers.max_price)]

\* Variant: every row a group of its own.
GroupOf_PerRow(st, k) == k

\* GROUP BY o.user_id, o.token_id, o.currency_id, o.side, o.offer_id,
\*          o.account_id
GroupOf(st, k) ==
    <<st.p2p_offers[k].user_id, st.p2p_offers[k].token_id,
      st.p2p_offers[k].currency_id, st.p2p_offers[k].side, k[2],
      st.p2p_offers[k].account_id>>

\* The groups of a query ORDER BY MAX(fetch_time) DESC LIMIT n, each as the
\* set of its rows.
RECURSIVE LatestGroups(_, _)
LatestGroups(G, n) ==
    IF G = {} \/ n = 0 THEN <<>>
    ELSE LET g == CHOOSE x \in G :
                     \A y \in G : Max({k[1] : k \in y}) <= Max({k[1] : k \in x})
         IN  <<g>> \o LatestGroups(G \ {g}, n - 1)

\* P2POfferModel.getOffersWithDetailsByPayment
getOffersWithDetailsByPayment(st, paymentMethodId, limit) ==
    LET rows == OffersJoinPayments(st, paymentMethodId)
        groups == {{k \in rows : GroupOf(st, k) = GroupOf(st, j)} : j \in rows}
        ordered == LatestGroups(groups, limit)
        price == [k \in rows |-> st.p2p_offers[k].price]
        quantity == [k \in rows |-> st.p2p_offers[k].total_quantity]
        any(g) == CHOOSE k \in g : TRUE
    IN  [i \in 1..Len(ordered) |->
            [fetch_time     |-> Max({k[1] : k \in ordered[i]}),
             offer_id       |-> any(ordered[i])[2],
             account_id     |-> st.p2p_offers[any(ordered[i])].account_id,
             user_id        |-> st.p2p_offers[any(ordered[i])].user_id,
             token_id       |-> st.p2p_offers[any(ordered[i])].token_id,
             currency_id    |-> st.p2p_offers[any(ordered[i])].currency_id,
             side           |-> st.p2p_offers[any(ordered[i])].side,
             price          |-> AVG(price, ordered[i]),
             total_quantity |-> AVG(quantity, ordered[i])]]

\* P2PService.getLatestOffersWithDetails
getLatestOffersWithDetails(st, limit) == getOffersWithDetailsByPayment(st, 165, limit)

\* GET /api/p2p/aggregations/:tokenId/:currencyId
GetPriceAggregations(tokenId, currencyId, side, interval, hours, t) ==
    /\ now' = t
    /\ request' = [op |-> "aggregations", tokenId |-> tokenId,
                   currencyId |-> currencyId, side |-> side,
                   interval |-> interval, hours |-> hours, limit |-> 0]
    /\ response' = IF isConnectionActive
                   THEN Ok(getPriceAggregations(store, tokenId, currencyId,
                                                side, interval, hours, t))
                   ELSE Failure(NotActive)
    /\ UNCHANGED <<isConnected, store, phase, callVars, cleanup, pair,
                   dateVars, taken, database>>

\* GET /api/p2p/summary/:tokenId/:currencyId
GetMarketSummary(tokenId, currencyId, t) ==
    /\ now' = t
    /\ request' = [op |-> "summary", tokenId |-> tokenId,
                   currencyId |-> currencyId, side |-> 0,
                   interval |-> "", hours |-> 24, limit |-> 0]
    /\ response' = IF isConnectionActive
                   THEN Ok(getMarketSummary(store, tokenId, currencyId, t))
                   ELSE Failure(NotActive)
    /\ UNCHANGED <<isConnected, store, phase, callVars, cleanup, pair,
                   dateVars, taken, database>>

\* GET /api/p2p/offers
GetLatestOffers(limit) ==
    /\ request' = [op |-> "offers", tokenId |-> "", currencyId |-> "",
                   side |-> 0, interval |-> "", hours |-> 0, limit |-> limit]
    /\ response' = IF isConnectionActive
                   THEN Ok(getLatestOffersWithDetails(store, limit))
                   ELSE Failure(NotActive)
    /\ UNCHANGED <<now, isConnected, store, phase, callVars, cleanup, pair,
                   dateVars, taken, database>>

(***************************************************************************)
(* Upstream responses (BybitP2PResponse).                                  *)
(***************************************************************************)
Response(code, msg, items) ==
    [ret_code |-> code, ret_msg |-> msg, items |-> items]

\* No answer received (yet).
NoReply == [ret_code |-> 0, ret_msg |-> ""]

\* new Error(`Bybit API error: ${data.ret_msg}`)
BybitApiError(ret_msg) == "Bybit API error: " \o ret_msg

\* What the upstream may answer: a page of at most n records drawn from S,
\* or a rejection.
Responses(S, n) ==
    {Response(0, "SUCCESS", p) : p \in SeqsUpTo(S, n)}
    \cup {Response(10001, "Request parameter error", <<>>),
          Response(10006, "Too many visits", <<ItemA>>)}

(***************************************************************************)
(* processAndStoreP2PData, as called by handler h for one side.            *)
(***************************************************************************)
\* Entry: `const fetchTime = new Date()` reads t, and the upstream request
\* is sent.
StartCall(h, side, t) ==
    /\ now' = t
    /\ pc' = [pc EXCEPT ![h] = "fetching"]
    /\ fetchTime' = [fetchTime EXCEPT ![h] = t]
    /\ page' = [page EXCEPT ![h] = <<>>]
    /\ idx' = [idx EXCEPT ![h] = 0]
    /\ todo' = [todo EXCEPT ![h] = <<>>]
    /\ wlog' = [wlog EXCEPT ![h] = <<>>]
    /\ err' = [err EXCEPT ![h] = ""]
    /\ reply' = [reply EXCEPT ![h] = NoReply]
    /\ requests' = [requests EXCEPT ![h] = 1]
    /\ taken' = taken \cup {[handler |-> h, side |-> side, fetch_time |-> t]}

\* Variant: ret_code is not looked at.
FetchReturns_IgnoreRetCode(h, resp) ==
    /\ pc[h] = "fetching"
    /\ IF resp.items = <<>>
       THEN /\ pc' = [pc EXCEPT ![h] = "done"]
            /\ UNCHANGED <<page, idx, todo, err>>
       ELSE /\ pc' = [pc EXCEPT ![h] = "storing"]
            /\ page' = [page EXCEPT ![h] = resp.items]
            /\ idx' = [idx EXCEPT ![h] = 1]
            /\ todo' = [todo EXCEPT ![h] =
                          RecordStatements(resp.items[1], fetchTime[h])]
            /\ UNCHANGED err
    /\ reply' = [reply EXCEPT ![h] = [ret_code |-> resp.ret_code,
                                      ret_msg  |-> resp.ret_msg]]
    /\ UNCHANGED <<now, isConnected, store, phase, fetchTime, wlog, requests,
                   cleanup, taken, pair, dateVars, readVars, database>>

\* The upstream answers.  ret_code !== 0 throws; otherwise the loop over
\* data.result.items begins with its first record.
FetchReturns(h, resp) ==
    /\ pc[h] = "fetching"
    /\ IF resp.ret_code # 0
       THEN /\ pc' = [pc EXCEPT ![h] = "failed"]
            /\ err' = [err EXCEPT ![h] = BybitApiError(resp.ret_msg)]
            /\ UNCHANGED <<page, idx, todo>>
       ELSE IF resp.items = <<>>
       THEN /\ pc' = [pc EXCEPT ![h] = "done"]
            /\ UNCHANGED <<page, idx, todo, err>>
       ELSE /\ pc' = [pc EXCEPT ![h] = "storing"]
            /\ page' = [page EXCEPT ![h] = resp.items]
            /\ idx' = [idx EXCEPT ![h] = 1]
            /\ todo' = [todo EXCEPT ![h] =
                          RecordStatements(resp.items[1], fetchTime[h])]
            /\ UNCHANGED err
    /\ reply' = [reply EXCEPT ![h] = [ret_code |-> resp.ret_code,
                                      ret_msg  |-> resp.ret_msg]]
    /\ UNCHANGED <<now, isConnected, store, phase, fetchTime, wlog, requests,
                   cleanup, taken, pair, dateVars, readVars, database>>

\* Variant: a failed request is sent again.
FetchFails_Retry(h) ==
    /\ pc[h] = "fetching"
    /\ requests' = [requests EXCEPT ![h] = requests[h] + 1]
    /\ UNCHANGED <<now, isConnected, store, phase, pc, fetchTime, page, idx,
                   todo, wlog, err, reply, cleanup, taken, pair, dateVars, readVars, database>>

\* fetch() rejects or the HTTP status is not OK: the error is rethrown.
FetchFails(h) ==
    /\ pc[h] = "fetching"
    /\ pc' = [pc EXCEPT ![h] = "failed"]
    /\ err' = [err EXCEPT ![h] = "UpstreamUnavailable"]
    /\ UNCHANGED <<now, isConnected, store, phase, fetchTime, page, idx, todo,
                   wlog, reply, requests, cleanup, taken, pair, dateVars, readVars, database>>

\* One `await model.method(...)`: the next statement of the record runs.
\* Any error leaves the loop and is rethrown by the catch block.
RunStatement(h) ==
    /\ pc[h] = "storing"
    /\ todo[h] # <<>>
    /\ LET s == Head(todo[h])
           r == DatabaseRun(s, store, isConnectionActive)
       IN IF r.err = ""
          THEN /\ store' = r.store
               /\ todo' = [todo EXCEPT ![h] = Tail(todo[h])]
               /\ wlog' = [wlog EXCEPT ![h] = Append(wlog[h], s)]
               /\ UNCHANGED <<pc, err>>
          ELSE /\ pc' = [pc EXCEPT ![h] = "failed"]
               /\ err' = [err EXCEPT ![h] = r.err]
               /\ UNCHANGED <<store, todo, wlog>>
    /\ UNCHANGED <<now, isConnected, phase, fetchTime, page, idx, reply,
                   requests, cleanup, taken, pair, dateVars, readVars, database>>

\* The record is stored; the loop goes on to the next record or ends.
NextRecord(h) ==
    /\ pc[h] = "storing"
    /\ todo[h] = <<>>
    /\ IF idx[h] < Len(page[h])
       THEN /\ idx' = [idx EXCEPT ![h] = idx[h] + 1]
            /\ todo' = [todo EXCEPT ![h] =
                          RecordStatements(page[h][idx[h] + 1], fetchTime[h])]
            /\ wlog' = [wlog EXCEPT ![h] = <<>>]
            /\ UNCHANGED pc
       ELSE /\ pc' = [pc EXCEPT ![h] = "done"]
            /\ UNCHANGED <<idx, todo, wlog>>
    /\ UNCHANGED <<now, isConnected, store, phase, fetchTime, page, err, reply,
                   requests, cleanup, taken, pair, dateVars, readVars, database>>

(***************************************************************************)
(* P2PController.fetchP2PData: SELL, a 500 ms pause, BUY, the envelope.    *)
(***************************************************************************)
ResetCall(h) ==
    /\ pc' = [pc EXCEPT ![h] = "idle"]
    /\ fetchTime' = [fetchTime EXCEPT ![h] = 0]
    /\ page' = [page EXCEPT ![h] = <<>>]
    /\ idx' = [idx EXCEPT ![h] = 0]
    /\ todo' = [todo EXCEPT ![h] = <<>>]
    /\ wlog' = [wlog EXCEPT ![h] = <<>>]

\* A request arrives at /api/p2p/fetch: the SELL ingestion starts.
fetchP2PData(h, t) ==
    /\ phase[h] = "idle"
    /\ phase' = [phase EXCEPT ![h] = "SELL"]
    /\ StartCall(h, TRADE_SIDE_SELL, t)
    /\ UNCHANGED <<isConnected, store, cleanup, pair, dateVars, readVars, database>>

\* Variant: the BUY ingestion is started as soon as the SELL one returns.
SellDone_NoPause(h) ==
    /\ phase[h] = "SELL"
    /\ pc[h] = "done"
    /\ phase' = [phase EXCEPT ![h] = "BUY"]
    /\ StartCall(h, TRADE_SIDE_BUY, now)
    /\ UNCHANGED <<isConnected, store, cleanup, pair, dateVars, readVars, database>>

\* The SELL ingestion returned: setTimeout(resolve, 500) is armed.
SellDone(h) ==
    /\ phase[h] = "SELL"
    /\ pc[h] = "done"
    /\ phase' = [phase EXCEPT ![h] = "pause"]
    /\ pc' = [pc EXCEPT ![h] = "idle"]
    /\ page' = [page EXCEPT ![h] = <<>>]
    /\ idx' = [idx EXCEPT ![h] = 0]
    /\ todo' = [todo EXCEPT ![h] = <<>>]
    /\ wlog' = [wlog EXCEPT ![h] = <<>>]
    /\ UNCHANGED <<now, isConnected, store, fetchTime, err, reply, requests,
                   cleanup, taken, pair, dateVars, readVars, database>>

\* The timer fires, the clock having advanced past the reading that the
\* SELL ingestion made (still in fetchTime[h]); the BUY ingestion starts and
\* reads t.
PauseElapsed(h, t) ==
    /\ phase[h] = "pause"
    /\ t > fetchTime[h]
    /\ phase' = [phase EXCEPT ![h] = "BUY"]
    /\ StartCall(h, TRADE_SIDE_BUY, t)
    /\ UNCHANGED <<isConnected, store, cleanup, pair, dateVars, readVars, database>>

\* The BUY ingestion returned: the success envelope.
BuyDone(h) ==
    /\ phase[h] = "BUY"
    /\ pc[h] = "done"
    /\ phase' = [phase EXCEPT ![h] = "ok"]
    /\ ResetCall(h)
    /\ UNCHANGED <<now, isConnected, store, err, reply, requests, cleanup, taken, pair, dateVars, readVars, database>>

\* Either ingestion threw: the catch block answers with the failure envelope.
TriggerFailed(h) ==
    /\ phase[h] \in {"SELL", "BUY"}
    /\ pc[h] = "failed"
    /\ phase' = [phase EXCEPT ![h] = "error"]
    /\ ResetCall(h)
    /\ UNCHANGED <<now, isConnected, store, err, reply, requests, cleanup, taken, pair, dateVars, readVars, database>>

(***************************************************************************)
(* P2PService.monitorTokenPairs: for each token pair SELL, BUY, a 1000 ms  *)
(* pause; an error of either call is caught and the loop goes on.          *)
(***************************************************************************)
\* An element of the tokenPairs array of the request body: the controller
\* checks Array.isArray(tokenPairs) only, so an element is an object with
\* the two ids or null.
PairElements == {"object", "null"}

TokenPairLists == UNION {[1..n -> PairElements] : n \in 1..MaxPairs}

\* The loop body is entered for one element at clock reading t.  For an
\* object the SELL ingestion starts.  For null, pair.tokenId throws inside
\* the try block, and the template literal of the catch block reads
\* pair.tokenId again: that TypeError leaves the loop and rejects the
\* promise of monitorTokenPairs.
MonitorPair(h, element, t) ==
    IF element = "object"
    THEN /\ phase' = [phase EXCEPT ![h] = "M_SELL"]
         /\ StartCall(h, TRADE_SIDE_SELL, t)
         /\ UNCHANGED <<isConnected, store, cleanup, dateVars, readVars, database>>
    ELSE /\ phase' = [phase EXCEPT ![h] = "rejected"]
         /\ ResetCall(h)
         /\ UNCHANGED <<now, isConnected, store, err, reply, requests, cleanup,
                        taken, dateVars, readVars, database>>

\* POST /api/p2p/monitor with the array tokenPairs: the loop starts in the
\* background with the first element.
monitorTokenPairs(h, tokenPairs, t) ==
    /\ phase[h] = "idle"
    /\ pair = <<>>
    /\ pair' = tokenPairs
    /\ MonitorPair(h, Head(tokenPairs), t)

\* The SELL ingestion returned: the BUY ingestion is awaited next.
MonitorSellDone(h, t) ==
    /\ phase[h] = "M_SELL"
    /\ pc[h] = "done"
    /\ phase' = [phase EXCEPT ![h] = "M_BUY"]
    /\ StartCall(h, TRADE_SIDE_BUY, t)
    /\ UNCHANGED <<isConnected, store, cleanup, pair, dateVars, readVars, database>>

\* The BUY ingestion returned: setTimeout(resolve, 1000) is armed.
MonitorBuyDone(h) ==
    /\ phase[h] = "M_BUY"
    /\ pc[h] = "done"
    /\ phase' = [phase EXCEPT ![h] = "M_pause"]
    /\ pc' = [pc EXCEPT ![h] = "idle"]
    /\ page' = [page EXCEPT ![h] = <<>>]
    /\ idx' = [idx EXCEPT ![h] = 0]
    /\ todo' = [todo EXCEPT ![h] = <<>>]
    /\ wlog' = [wlog EXCEPT ![h] = <<>>]
    /\ UNCHANGED <<now, isConnected, store, fetchTime, err, reply, requests,
                   cleanup, pair, taken, dateVars, readVars, database>>

\* The loop goes to the next token pair at clock reading t, or returns.
MonitorNextPair(h, t) ==
    IF Len(pair) > 1
    THEN /\ pair' = Tail(pair)
         /\ MonitorPair(h, pair[2], t)
    ELSE /\ pair' = <<>>
         /\ phase' = [phase EXCEPT ![h] = "returned"]
         /\ ResetCall(h)
         /\ UNCHANGED <<now, isConnected, store, err, reply, requests, cleanup,
                        taken, dateVars, readVars, database>>

\* The timer fires, the clock having advanced.
MonitorPauseElapsed(h, t) ==
    /\ phase[h] = "M_pause"
    /\ t > fetchTime[h]
    /\ MonitorNextPair(h, t)

\* Either ingestion threw: the catch block logs, and the loop goes on.
MonitorCatch(h, t) ==
    /\ phase[h] \in {"M_SELL", "M_BUY"}
    /\ pc[h] = "failed"
    /\ MonitorNextPair(h, t)

(***************************************************************************)
(* Retention: P2PService.cleanupOldData and the three delete methods.      *)
(***************************************************************************)
FactTables == {"p2p_offers", "offer_payments", "trading_preferences"}

CleanupIdle ==
    [pc |-> "idle", retentionDays |-> 0,
     cutoff |-> [t \in FactTables |-> 0], pending |-> {},
     deleted |-> [t \in FactTables |-> {}]]

\* cutoffDate = new Date(); cutoffDate.setDate(cutoffDate.getDate() - retentionDays)
CutoffDate(t, retentionDays) == t - retentionDays * DayTicks

\* DELETE FROM p2p_offers WHERE fetch_time < ?
P2POfferModel_deleteOldOffers(tbl, cutoffDate) ==
    [k \in {x \in DOMAIN tbl : ~(x[1] < cutoffDate)} |-> tbl[k]]

\* DELETE FROM offer_payments WHERE fetch_time < ?
OfferPaymentModel_deleteOldRecords(tbl, cutoffDate) ==
    {x \in tbl : ~(x[1] < cutoffDate)}

\* DELETE FROM trading_preferences WHERE fetch_time < ?
TradingPreferencesModel_deleteOldRecords(tbl, cutoffDate) ==
    [k \in {x \in DOMAIN tbl : ~(x[1] < cutoffDate)} |-> tbl[k]]

\* The primary keys of the rows of fact-side table t.
RowKeys(t, st) ==
    IF t = "offer_payments" THEN st[t] ELSE DOMAIN st[t]

DeleteOld(t, st, cutoffDate) ==
    CASE t = "p2p_offers" ->
           P2POfferModel_deleteOldOffers(st.p2p_offers, cutoffDate)
      [] t = "offer_payments" ->
           OfferPaymentModel_deleteOldRecords(st.offer_payments, cutoffDate)
      [] t = "trading_preferences" ->
           TradingPreferencesModel_deleteOldRecords(st.trading_preferences,
                                                    cutoffDate)

\* The clock readings of the three `new Date()` that Promise.all([...]) makes
\* one after the other, in the order of the array: the clock may advance
\* between two of them.
ClockReadings ==
    {r \in [FactTables -> now..MaxTime] :
        /\ r["p2p_offers"] <= r["offer_payments"]
        /\ r["offer_payments"] <= r["trading_preferences"]
        /\ r["trading_preferences"] <= r["p2p_offers"] + 1}

\* A request arrives at DELETE /api/p2p/cleanup: each delete method computes
\* its cutoff, passes ensureConnection and awaits its statement; no statement
\* has run yet.
cleanupOldData(retentionDays, r) ==
    /\ cleanup.pc = "idle"
    /\ isConnected
    /\ cleanup' =
         [pc |-> "running", retentionDays |-> retentionDays,
          cutoff |-> [t \in FactTables |-> CutoffDate(r[t], retentionDays)],
          pending |-> FactTables,
          deleted |-> [t \in FactTables |-> {}]]
    /\ now' = r["trading_preferences"]
    /\ UNCHANGED <<isConnected, store, phase, taken, pair, dateVars, readVars, database>>
    /\ UNCHANGED callVars

\* One of the three pending DELETE statements runs (Database.run); with the
\* last one Promise.all settles and the call returns.
CleanupDelete(t) ==
    /\ cleanup.pc = "running"
    /\ t \in cleanup.pending
    /\ LET left == cleanup.pending \ {t}
       IN /\ store' = [store EXCEPT ![t] = DeleteOld(t, store, cleanup.cutoff[t])]
          /\ cleanup' = [cleanup EXCEPT !.pending = left,
                                        !.deleted[t] = RowKeys(t, store)
                                                         \ RowKeys(t, store'),
                                        !.pc = IF left = {} THEN "done"
                                               ELSE "running"]
    /\ UNCHANGED <<now, isConnected, phase, taken, pair, dateVars, readVars, database>>
    /\ UNCHANGED callVars

(***************************************************************************)
(* The environment: the Database connection.  The clock is monotone and is  *)
(* seen only where the code reads it: every `new Date()` draws a reading   *)
(* that is not earlier than the latest one.                                *)
(***************************************************************************)
ClockValues == now..MaxTime

\* Database.close()
close ==
    /\ isConnected
    /\ isConnected' = FALSE
    /\ database' = Closed
    /\ UNCHANGED <<now, store, phase, cleanup, taken, pair, dateVars, readVars>>
    /\ UNCHANGED callVars

\* Database.connect(): CREATE TABLE IF NOT EXISTS leaves the tables as they are.
connect ==
    /\ ~isConnected
    /\ isConnected' = TRUE
    /\ database' = Connected
    /\ UNCHANGED <<now, store, phase, cleanup, taken, pair, dateVars, readVars>>
    /\ UNCHANGED callVars

(***************************************************************************)
(* Init: the state after `await db.connect()` on an empty database file.   *)
(***************************************************************************)
Init ==
    /\ now = 0
    /\ isConnected = TRUE
    /\ store = EmptyStore
    /\ phase = [h \in Handlers |-> "idle"]
    /\ pc = [h \in Handlers |-> "idle"]
    /\ fetchTime = [h \in Handlers |-> 0]
    /\ page = [h \in Handlers |-> <<>>]
    /\ idx = [h \in Handlers |-> 0]
    /\ todo = [h \in Handlers |-> <<>>]
    /\ wlog = [h \in Handlers |-> <<>>]
    /\ err = [h \in Handlers |-> ""]
    /\ reply = [h \in Handlers |-> NoReply]
    /\ requests = [h \in Handlers |-> 0]
    /\ cleanup = CleanupIdle
    /\ pair = <<>>
    /\ taken = {}
    /\ dateString = <<>>
    /\ parsed = <<>>
    /\ request = NoRequest
    /\ response = NoResponse
    /\ database = Connected

\* The state in which one record's lastLogoutTime awaits normalization.
InitDate ==
    /\ now = 0
    /\ isConnected = TRUE
    /\ store = EmptyStore
    /\ phase = [h \in Handlers |-> "idle"]
    /\ pc = [h \in Handlers |-> "idle"]
    /\ fetchTime = [h \in Handlers |-> 0]
    /\ page = [h \in Handlers |-> <<>>]
    /\ idx = [h \in Handlers |-> 0]
    /\ todo = [h \in Handlers |-> <<>>]
    /\ wlog = [h \in Handlers |-> <<>>]
    /\ err = [h \in Handlers |-> ""]
    /\ reply = [h \in Handlers |-> NoReply]
    /\ requests = [h \in Handlers |-> 0]
    /\ cleanup = CleanupIdle
    /\ pair = <<>>
    /\ taken = {}
    /\ dateString \in DateStrings
    /\ parsed = <<>>
    /\ request = NoRequest
    /\ response = NoResponse
    /\ database = Connected

\* Fact rows a store may hold when it is read, each with the payment method
\* of its one bridge row: rows of one offer at several times, of both
\* sides, of another token, of another account of the same user, priced 0,
\* and without a bridge row for method 165.
Fact(t, id, user, account, token, side, price, quantity, method) ==
    [key |-> <<t, id>>,
     row |-> [user_id |-> user, account_id |-> account, token_id |-> token,
              currency_id |-> CurrencyId, side |-> side, price |-> price,
              total_quantity |-> quantity],
     method |-> method]

FactPool ==
    {Fact(0,  1, 1, 1, TokenId, TRADE_SIDE_BUY,  90,  10, 165),
     Fact(40, 1, 1, 1, TokenId, TRADE_SIDE_BUY,  100, 10, 165),
     Fact(41, 1, 1, 1, TokenId, TRADE_SIDE_BUY,  102, 30, 165),
     Fact(42, 2, 2, 2, TokenId, TRADE_SIDE_SELL, 105, 10, 165),
     Fact(43, 6, 2, 2, TokenId, TRADE_SIDE_SELL, 0,   10, 165),
     Fact(44, 3, 3, 3, TokenId, TRADE_SIDE_SELL, 108, 10, 165),
     Fact(44, 4, 4, 4, TokenId, TRADE_SIDE_BUY,  101, 10, 14),
     Fact(45, 5, 3, 3, "BTC",   TRADE_SIDE_SELL, 3,   10, 165),
     Fact(46, 1, 1, 9, TokenId, TRADE_SIDE_BUY,  104, 10, 165)}

StoreOf(facts) ==
    [EmptyStore EXCEPT
        !.p2p_offers = [k \in {f.key : f \in facts} |->
                           (CHOOSE f \in facts : f.key = k).row],
        !.offer_payments = {<<f.key[1], f.key[2], f.method>> : f \in facts}]

\* The readings of the clock at which the store is read.
ReadTimes == {46, 50}

\* The state in which a store of fact rows is read, connected or not.
InitQuery ==
    /\ now = 46
    /\ isConnected \in BOOLEAN
    /\ store \in {StoreOf(facts) : facts \in SUBSET FactPool}
    /\ phase = [h \in Handlers |-> "idle"]
    /\ pc = [h \in Handlers |-> "idle"]
    /\ fetchTime = [h \in Handlers |-> 0]
    /\ page = [h \in Handlers |-> <<>>]
    /\ idx = [h \in Handlers |-> 0]
    /\ todo = [h \in Handlers |-> <<>>]
    /\ wlog = [h \in Handlers |-> <<>>]
    /\ err = [h \in Handlers |-> ""]
    /\ reply = [h \in Handlers |-> NoReply]
    /\ requests = [h \in Handlers |-> 0]
    /\ cleanup = CleanupIdle
    /\ pair = <<>>
    /\ taken = {}
    /\ dateString = <<>>
    /\ parsed = <<>>
    /\ request = NoRequest
    /\ response = NoResponse
    /\ database = IF isConnected THEN Connected ELSE Closed

(***************************************************************************)
(* The Database wrapper called directly: connect, close, query, run,       *)
(* transaction and healthCheck, each awaited before the next call.  A call *)
(* of the driver (@duckdb/node-api) may throw.                             *)
(***************************************************************************)
\* The wrapper as constructed: no connect() has been called.
NewDatabase ==
    [instance |-> FALSE, connection |-> FALSE, last |-> "new", calls |-> <<>>]

\* The driver call at which connect() / close() throws, or "ok".
ConnectOutcomes == {"ok", "create", "connect", "initializeSchema"}
CloseOutcomes == {"ok", "connection.closeSync", "instance.closeSync"}

DatabaseRequest(op) == [NoRequest EXCEPT !.op = op]

\* Database.connect(): returns at once when isConnected; else creates the
\* instance, connects, sets isConnected, initializes the schema; the catch
\* block resets isConnected and rethrows.
Database_connect(outcome) ==
    /\ request' = DatabaseRequest("connect")
    /\ IF isConnected
       THEN /\ response' = Ok(<<>>)
            /\ database' = [database EXCEPT !.calls = <<>>]
            /\ UNCHANGED isConnected
       ELSE /\ isConnected' = (outcome = "ok")
            /\ response' = IF outcome = "ok" THEN Ok(<<>>)
                           ELSE Failure("Failed to connect to database")
            /\ database' =
                 CASE outcome = "create" ->
                        [database EXCEPT !.last = "connect failed",
                                         !.calls = <<"create">>]
                   [] outcome = "connect" ->
                        [database EXCEPT !.instance = TRUE,
                                         !.last = "connect failed",
                                         !.calls = <<"create", "connect">>]
                   [] outcome = "initializeSchema" ->
                        [Connected EXCEPT !.last = "connect failed"]
                   [] outcome = "ok" -> Connected
    /\ UNCHANGED <<now, store, phase, cleanup, taken, pair, dateVars>>
    /\ UNCHANGED callVars

\* Database.close(): returns at once when not isConnected; else closes the
\* connection and the instance where set, nulls each after its closeSync,
\* and clears isConnected last; an error of closeSync is rethrown.
Database_close(outcome) ==
    /\ request' = DatabaseRequest("close")
    /\ IF ~isConnected
       THEN /\ response' = Ok(<<>>)
            /\ database' = [database EXCEPT !.calls = <<>>]
            /\ UNCHANGED isConnected
       ELSE LET first == IF database.connection
                         THEN <<"connection.closeSync">> ELSE <<>>
                second == IF database.instance
                          THEN <<"instance.closeSync">> ELSE <<>>
            IN  IF database.connection /\ outcome = "connection.closeSync"
                THEN /\ response' = Failure("Failed to close database")
                     /\ database' = [database EXCEPT !.last = "close failed",
                                                      !.calls = first]
                     /\ UNCHANGED isConnected
                ELSE IF database.instance /\ outcome = "instance.closeSync"
                THEN /\ response' = Failure("Failed to close database")
                     /\ database' = [database EXCEPT !.connection = FALSE,
                                                      !.last = "close failed",
                                                      !.calls = first \o second]
                     /\ UNCHANGED isConnected
                ELSE /\ response' = Ok(<<>>)
                     /\ database' = [Closed EXCEPT !.calls = first \o second]
                     /\ isConnected' = FALSE
    /\ UNCHANGED <<now, store, phase, cleanup, taken, pair, dateVars>>
    /\ UNCHANGED callVars

\* The statements given to run and transaction: INSERTs of two fact rows
\* and of their bridge rows.
DatabaseStatements ==
    LET facts == {f \in FactPool : f.key[1] \in {40, 42}}
    IN  {[op |-> "p2p_offers", key |-> f.key, val |-> f.row] : f \in facts}
        \cup {[op |-> "offer_payments", key |-> <<f.key[1], f.key[2], f.method>>]
                 : f \in facts}

\* Database.query(sql): here SELECT of the keys of p2p_offers.
\* ensureConnection throws before the try block; an error of the driver
\* is wrapped as 'Query failed: ...'.
Database_query(driverOk) ==
    /\ request' = DatabaseRequest("query")
    /\ response' = IF ~isConnectionActive THEN Failure(NotActive)
                   ELSE IF ~driverOk THEN Failure("Query failed")
                   ELSE Ok(DOMAIN store.p2p_offers)
    /\ UNCHANGED <<now, isConnected, database, store, phase, cleanup, taken,
                   pair, dateVars>>
    /\ UNCHANGED callVars

\* Database.run(sql, params) of statement s.
Database_run(s, driverOk) ==
    /\ request' = DatabaseRequest("run")
    /\ LET r == DatabaseRun(s, store, isConnectionActive)
       IN  IF ~isConnectionActive
           THEN response' = Failure(NotActive) /\ store' = r.store
           ELSE IF ~driverOk \/ r.err # ""
           THEN response' = Failure("Run query failed") /\ UNCHANGED store
           ELSE response' = Ok(<<1>>) /\ store' = r.store
    /\ UNCHANGED <<now, isConnected, database, phase, cleanup, taken, pair,
                   dateVars>>
    /\ UNCHANGED callVars

\* The store after the statements of queries ran in order, and whether
\* each of them succeeded.
RECURSIVE RunAll(_, _)
RunAll(queries, st) ==
    IF queries = <<>> THEN [ok |-> TRUE, store |-> st]
    ELSE LET r == DatabaseRun(Head(queries), st, TRUE)
         IN  IF r.err # "" THEN [ok |-> FALSE, store |-> st]
             ELSE RunAll(Tail(queries), r.store)

\* Database.transaction(queries): BEGIN TRANSACTION, run each, COMMIT; on an
\* error ROLLBACK and rethrow.
Database_transaction(queries, driverOk) ==
    /\ request' = DatabaseRequest("transaction")
    /\ LET r == RunAll(queries, store)
       IN  IF ~isConnectionActive
           THEN response' = Failure(NotActive) /\ UNCHANGED store
           ELSE IF ~driverOk \/ ~r.ok
           THEN response' = Failure("Transaction failed") /\ UNCHANGED store
           ELSE response' = Ok(<<>>) /\ store' = r.store
    /\ UNCHANGED <<now, isConnected, database, phase, cleanup, taken, pair,
                   dateVars>>
    /\ UNCHANGED callVars

\* Database.healthCheck(): true when query('SELECT 1 ...') returns, false
\* when it throws.
Database_healthCheck(driverOk) ==
    /\ request' = DatabaseRequest("healthCheck")
    /\ response' = [success |-> isConnectionActive /\ driverOk,
                    message |-> "", data |-> <<>>]
    /\ UNCHANGED <<now, isConnected, database, store, phase, cleanup, taken,
                   pair, dateVars>>
    /\ UNCHANGED callVars

\* The state after `new Database(dbPath)`, before the first connect().
InitDatabase ==
    /\ now = 0
    /\ isConnected = FALSE
    /\ store = EmptyStore
    /\ phase = [h \in Handlers |-> "idle"]
    /\ pc = [h \in Handlers |-> "idle"]
    /\ fetchTime = [h \in Handlers |-> 0]
    /\ page = [h \in Handlers |-> <<>>]
    /\ idx = [h \in Handlers |-> 0]
    /\ todo = [h \in Handlers |-> <<>>]
    /\ wlog = [h \in Handlers |-> <<>>]
    /\ err = [h \in Handlers |-> ""]
    /\ reply = [h \in Handlers |-> NoReply]
    /\ requests = [h \in Handlers |-> 0]
    /\ cleanup = CleanupIdle
    /\ pair = <<>>
    /\ taken = {}
    /\ dateString = <<>>
    /\ parsed = <<>>
    /\ request = NoRequest
    /\ response = NoResponse
    /\ database = NewDatabase

\* last_logout: item.lastLogoutTime ? this.parseValidDate(...) : undefined
lastLogout ==
    /\ parsed = <<>>
    /\ parsed' = <<IF dateString = <<>> THEN UndefinedDate
                   ELSE parseValidDate(dateString)>>
    /\ UNCHANGED <<now, isConnected, store, phase, callVars, cleanup, pair,
                   dateString, readVars, taken, database>>

(***************************************************************************)
(* Specifications.                                                         *)
(***************************************************************************)
\* One trigger; pages of up to MaxPage records; the connection may close.
Next ==
    \/ \E t \in ClockValues : fetchP2PData(1, t)
    \/ \E resp \in Responses(Items, MaxPage) : FetchReturns(1, resp)
    \/ FetchFails(1)
    \/ RunStatement(1)
    \/ NextRecord(1)
    \/ SellDone(1)
    \/ \E t \in ClockValues : PauseElapsed(1, t)
    \/ BuyDone(1)
    \/ TriggerFailed(1)
    \/ close
    \/ connect

Spec == Init /\ [][Next]_vars

\* One trigger and the retention sweep, on a store that stays connected and
\* an upstream whose records are well formed.
NextRetention ==
    \/ \E t \in ClockValues : fetchP2PData(1, t)
    \/ \E resp \in Responses(WellFormed, MaxPage) : FetchReturns(1, resp)
    \/ FetchFails(1)
    \/ RunStatement(1)
    \/ NextRecord(1)
    \/ SellDone(1)
    \/ \E t \in ClockValues : PauseElapsed(1, t)
    \/ BuyDone(1)
    \/ TriggerFailed(1)
    \/ \E d \in 0..MaxRetentionDays : \E r \in ClockReadings : cleanupOldData(d, r)
    \/ \E t \in FactTables : CleanupDelete(t)

SpecRetention == Init /\ [][NextRetention]_vars

\* Two triggers that may overlap, on single-record pages.
NextOverlap ==
    \/ \E h \in Handlers :
         \/ \E t \in ClockValues : fetchP2PData(h, t)
         \/ \E resp \in Responses(Items, 1) : FetchReturns(h, resp)
         \/ FetchFails(h)
         \/ RunStatement(h)
         \/ NextRecord(h)
         \/ SellDone(h)
         \/ \E t \in ClockValues : PauseElapsed(h, t)
         \/ BuyDone(h)
         \/ TriggerFailed(h)

SpecOverlap == Init /\ [][NextOverlap]_vars

\* One monitor run over up to MaxPairs token pairs, on single-record pages.
NextMonitor ==
    \/ \E tokenPairs \in TokenPairLists : \E t \in ClockValues :
          monitorTokenPairs(1, tokenPairs, t)
    \/ \E resp \in Responses(Items, 1) : FetchReturns(1, resp)
    \/ FetchFails(1)
    \/ RunStatement(1)
    \/ NextRecord(1)
    \/ \E t \in ClockValues : MonitorSellDone(1, t)
    \/ MonitorBuyDone(1)
    \/ \E t \in ClockValues : MonitorPauseElapsed(1, t)
    \/ \E t \in ClockValues : MonitorCatch(1, t)

SpecMonitor == Init /\ [][NextMonitor]_vars

\* One trigger on single-record pages whose record may lack a field or
\* carry an unexpected value.
NextQuality ==
    \/ \E t \in ClockValues : fetchP2PData(1, t)
    \/ \E resp \in Responses(QualityItems, 1) : FetchReturns(1, resp)
    \/ FetchFails(1)
    \/ RunStatement(1)
    \/ NextRecord(1)
    \/ SellDone(1)
    \/ \E t \in ClockValues : PauseElapsed(1, t)
    \/ BuyDone(1)
    \/ TriggerFailed(1)

SpecQuality == Init /\ [][NextQuality]_vars

\* One trigger on pages of up to MaxPage records of two offers, which
\* differ in their last logout, payments and trading preferences.
NextRecords ==
    \/ \E t \in ClockValues : fetchP2PData(1, t)
    \/ \E resp \in Responses(RecordItems, MaxPage) : FetchReturns(1, resp)
    \/ FetchFails(1)
    \/ RunStatement(1)
    \/ NextRecord(1)
    \/ SellDone(1)
    \/ \E t \in ClockValues : PauseElapsed(1, t)
    \/ BuyDone(1)
    \/ TriggerFailed(1)

SpecRecords == Init /\ [][NextRecords]_vars

\* The read endpoints on a store of fact rows.  A read leaves the store as
\* it is, so one read per behaviour shows every answer.
NextQuery ==
    \/ /\ request = NoRequest
       /\ \E tokenId \in {TokenId, "BTC"},
             side \in {TRADE_SIDE_SELL, TRADE_SIDE_BUY},
             interval \in {"hour", "day"}, hours \in {1, 24},
             t \in {r \in ReadTimes : r >= now} :
             GetPriceAggregations(tokenId, CurrencyId, side, interval, hours, t)
    \/ /\ request = NoRequest
       /\ \E tokenId \in {TokenId, "BTC"}, t \in {r \in ReadTimes : r >= now} :
             GetMarketSummary(tokenId, CurrencyId, t)
    \/ /\ request = NoRequest
       /\ \E limit \in {1, 2, 50} : GetLatestOffers(limit)

SpecQuery == InitQuery /\ [][NextQuery]_vars

\* Calls of the wrapper in any order, on a store that starts empty.
NextDatabase ==
    \/ \E outcome \in ConnectOutcomes : Database_connect(outcome)
    \/ \E outcome \in CloseOutcomes : Database_close(outcome)
    \/ \E driverOk \in BOOLEAN : Database_query(driverOk)
    \/ \E s \in DatabaseStatements, driverOk \in BOOLEAN :
          Database_run(s, driverOk)
    \/ \E s1, s2 \in DatabaseStatements, driverOk \in BOOLEAN :
          Database_transaction(<<s1, s2>>, driverOk)
    \/ \E driverOk \in BOOLEAN : Database_healthCheck(driverOk)

SpecDatabase == InitDatabase /\ [][NextDatabase]_vars

\* The normalization of one lastLogoutTime, for every date string tried.
NextDate == lastLogout

SpecDate == InitDate /\ [][NextDate]_vars

(***************************************************************************)
(* Properties.                                                             *)
(***************************************************************************)
OfferKeys == DOMAIN store.p2p_offers

\* The (fetch_time, offer_id) a dependent row refers to.
FactOf(k) == <<k[1], k[2]>>

IsPrefix(a, b) == Len(a) <= Len(b) /\ SubSeq(b, 1, Len(a)) = a

OpsOf(stmts) == [i \in 1..Len(stmts) |-> stmts[i].op]

Repeat(x, n) == [i \in 1..n |-> x]

DimensionOps == {"symbol_info", "p2p_users", "payment_methods", "assets"}
FactOps == {"p2p_offers", "offer_payments", "trading_preferences"}

\* Statement s, which ran successfully, still shows in store st.
Visible(s, st) ==
    IF s.op \in {"offer_payments", "assets"}
    THEN s.key \in st[s.op]
    ELSE s.key \in DOMAIN st[s.op] /\ st[s.op][s.key] = s.val

\* Handler h takes a step of its ingestion call.
CallSteps(h) == <<pc[h], todo[h]>>' # <<pc[h], todo[h]>>

\* C1: in every state reachable by ingestion calls, also those that abort
\* part-way through a record or a page, every offer_payments row and every
\* trading_preferences row has a p2p_offers row with the same
\* (fetch_time, offer_id).
C1_DependentsHaveFact ==
    /\ \A k \in store.offer_payments : FactOf(k) \in OfferKeys
    /\ \A k \in DOMAIN store.trading_preferences : k \in OfferKeys

\* A call aborted between two dependent writes of a record: the bridge row
\* is stored, the trading preferences are not.
C1_Witness ==
    /\ pc[1] = "failed"
    /\ err[1] = "StoreUnavailable"
    /\ wlog[1] # <<>>
    /\ wlog[1][Len(wlog[1])].op = "offer_payments"
    /\ store.offer_payments # {}

\* The order of writes the contract lists for one record.
ExpectedOrder(item) ==
    (IF item.symbolInfo THEN <<"symbol_info">> ELSE <<>>)
    \o <<"p2p_users">>
    \o Repeat("payment_methods", Len(item.payments))
    \o <<"assets", "assets">>
    \o <<"p2p_offers">>
    \o Repeat("offer_payments", Len(item.payments))
    \o (IF item.tradingPreferenceSet THEN <<"trading_preferences">> ELSE <<>>)

\* C2: the writes of every record happen in the listed order and no other
\* (symbol_info if present, p2p_users, one payment_methods per payment id,
\* two assets, p2p_offers, one offer_payments per payment id,
\* trading_preferences if present), and no fact or dependent write of a
\* record precedes any of its dimension upserts.
C2_WriteOrder ==
    \A h \in Handlers :
        idx[h] > 0 =>
            LET item == page[h][idx[h]]
                done == OpsOf(wlog[h])
            IN /\ IsPrefix(done, ExpectedOrder(item))
               /\ (pc[h] \in {"storing", "done"} /\ todo[h] = <<>>)
                    => done = ExpectedOrder(item)
               /\ \A i, j \in 1..Len(done) :
                    (done[i] \in FactOps /\ done[j] \in DimensionOps) => j < i

\* A record with every kind of write has been stored completely.
C2_Witness ==
    /\ pc[1] = "storing"
    /\ todo[1] = <<>>
    /\ page[1][idx[1]] = ItemA
    /\ Len(wlog[1]) = 8

\* C3: when a write of a record fails, none of the writes that record made
\* remains visible in the store, and the error is surfaced to the caller.
C3_FailedRecordLeavesNothing ==
    \A h \in Handlers :
        pc[h] = "failed" =>
            /\ err[h] # ""
            /\ \A i \in 1..Len(wlog[h]) : ~Visible(wlog[h][i], store)

PerRecordErrors == {"NormalizationError", "DuplicateKey"}

\* C4: a per-record error (normalization, duplicate key) does not abort the
\* call while later records of the page are still to be stored.
C4_BadRecordSkipped ==
    \A h \in Handlers :
        ~(/\ pc[h] = "failed"
          /\ err[h] \in PerRecordErrors
          /\ idx[h] < Len(page[h]))

\* Handler h is about to insert a fact row whose key is already stored.
DuplicateOfferInsert(h) ==
    /\ pc[h] = "storing"
    /\ todo[h] # <<>>
    /\ Head(todo[h]).op = "p2p_offers"
    /\ Head(todo[h]).key \in OfferKeys
    /\ isConnected

\* C5: inserting a p2p_offers row whose (fetch_time, offer_id) exists fails
\* with a duplicate-key error, leaves the existing row and the row count
\* unchanged, and no offer_payments or trading_preferences row is inserted
\* for that attempt.
C5_DuplicateOfferRejected ==
    [][\A h \in Handlers :
         /\ (DuplicateOfferInsert(h) /\ CallSteps(h)) =>
               /\ pc'[h] = "failed"
               /\ err'[h] = "DuplicateKey"
               /\ store' = store
               /\ \A i \in 1..Len(wlog'[h]) : wlog'[h][i].op \in DimensionOps
         /\ (pc[h] = "failed" /\ err[h] = "DuplicateKey") => store' = store
      ]_vars

\* The second sighting of offer 1 in one page was rejected; the row of the
\* first sighting and its dependents are what the store holds.
C5_Witness ==
    /\ pc[1] = "failed"
    /\ err[1] = "DuplicateKey"
    /\ page[1] = <<ItemA, ItemB>>
    /\ idx[1] = 2
    /\ OfferKeys = {<<fetchTime[1], 1>>}
    /\ store.p2p_offers[<<fetchTime[1], 1>>].price = 1
    /\ store.offer_payments = {<<fetchTime[1], 1, 165>>}

\* Handler h is about to insert a bridge row that is already stored.
DuplicatePaymentInsert(h) ==
    /\ pc[h] = "storing"
    /\ todo[h] # <<>>
    /\ Head(todo[h]).op = "offer_payments"
    /\ Head(todo[h]).key \in store.offer_payments
    /\ isConnected

PaymentKeys == (0..MaxTime) \X {1, 2} \X {14, 165}

\* C6: inserting an offer_payments triple that already exists raises no
\* error and leaves the table as it was; inserting a triple once or twice
\* gives the same table.
C6_OfferPaymentIdempotent ==
    [][/\ \A h \in Handlers :
            (DuplicatePaymentInsert(h) /\ CallSteps(h)) =>
               /\ pc'[h] = "storing"
               /\ err'[h] = err[h]
               /\ todo'[h] = Tail(todo[h])
               /\ store' = store
       /\ \A k \in PaymentKeys :
            LET once == OfferPaymentModel_create(store.offer_payments, k)
                twice == OfferPaymentModel_create(once.tbl, k)
            IN /\ once.ok
               /\ twice.ok
               /\ twice.tbl = once.tbl
               /\ (k \in store.offer_payments => once.tbl = store.offer_payments)
      ]_vars

\* A record listing the same payment id twice has had both inserts run.
C6_Witness ==
    /\ pc[1] = "storing"
    /\ Len(wlog[1]) >= 2
    /\ wlog[1][Len(wlog[1])].op = "offer_payments"
    /\ wlog[1][Len(wlog[1]) - 1] = wlog[1][Len(wlog[1])]
    /\ Cardinality(store.offer_payments) = 1

\* C7: every ingestion call takes a snapshot time different from that of
\* every other call, so no (snapshot_time, offer_id) is submitted twice.
C7_SnapshotTimesDistinct ==
    \A a, b \in taken : a # b => a.fetch_time # b.fetch_time

\* The dependents of fact key k among the keys ks of a dependent table.
DependentsOf(k, ks) == {d \in ks : FactOf(d) = k}

AllFactKeys == (0..MaxTime) \X {1, 2}

\* C8: the three deletions of one cleanup call use the same cutoff, and once
\* the call has completed every fact row is either deleted with all of its
\* dependents or retained with all of them.
C8_OneCutoff ==
    /\ cleanup.pc # "idle" =>
         \A t, u \in FactTables : cleanup.cutoff[t] = cleanup.cutoff[u]
    /\ cleanup.pc = "done" =>
         \A k \in AllFactKeys :
            LET gone == DependentsOf(k, cleanup.deleted["offer_payments"])
                          \cup DependentsOf(k, cleanup.deleted["trading_preferences"])
            IN /\ gone # {} => k \in cleanup.deleted["p2p_offers"]
               /\ k \in cleanup.deleted["p2p_offers"] =>
                     /\ DependentsOf(k, store.offer_payments) = {}
                     /\ DependentsOf(k, DOMAIN store.trading_preferences) = {}

\* C9: when cleanup(retentionDays) completes, no row of the three tables
\* predates (time of the call - retentionDays days), and no row that is not
\* older than that horizon has been removed.
C9_HorizonRespected ==
    [][(cleanup.pc = "running" /\ cleanup'.pc = "done") =>
         LET horizon == cleanup'.cutoff["p2p_offers"]
         IN /\ \A t \in FactTables :
                 \A k \in RowKeys(t, store') : ~(k[1] < horizon)
            /\ \A t \in FactTables :
                 \A k \in cleanup'.deleted[t] : k[1] < horizon
      ]_vars

\* C10: a p2p_offers row never changes between its insertion and its
\* deletion; p2p_offers changes only by the insertion of a new
\* (fetch_time, offer_id) or by the retention delete.
C10_FactRowImmutable ==
    [][LET old == store.p2p_offers
           new == store'.p2p_offers
       IN /\ \A k \in (DOMAIN old) \cap (DOMAIN new) : new[k] = old[k]
          /\ new # old =>
               \/ \E k \in (DOMAIN new) \ (DOMAIN old) : new = Put(old, k, new[k])
               \/ /\ cleanup.pc = "running"
                  /\ "p2p_offers" \in cleanup.pending
                  /\ DOMAIN new \subseteq DOMAIN old
                  /\ \A k \in (DOMAIN old) \ (DOMAIN new) :
                        k[1] < cleanup.cutoff["p2p_offers"]
      ]_vars

\* A sweep has deleted an old snapshot of offer 1 and a newer snapshot of
\* the same offer is retained, with the attributes it was inserted with.
C10_Witness ==
    /\ cleanup.pc = "done"
    /\ \E k \in cleanup.deleted["p2p_offers"] :
          \E j \in OfferKeys :
             /\ j[2] = k[2]
             /\ j[1] > k[1]
             /\ store.p2p_offers[j].price \in {1, 2}

\* Handler h completes, in this step, a p2p_users upsert of key k.
UserUpsertCompletes(h, k) ==
    /\ pc[h] = "storing"
    /\ todo[h] # <<>>
    /\ Head(todo[h]).op = "p2p_users"
    /\ Head(todo[h]).key = k
    /\ todo'[h] = Tail(todo[h])

\* C11: p2p_users holds one row per user_id, and under any interleaving of
\* ingestion calls the row changes only by being overwritten as a whole by
\* the upsert that completes in that step: all of its attributes come from
\* the upsert that completed last, never a mix of two upserts.
C11_UserLastWriteWins ==
    [][/\ DOMAIN store.p2p_users \subseteq DOMAIN store'.p2p_users
       /\ \A k \in DOMAIN store'.p2p_users :
            \/ /\ k \in DOMAIN store.p2p_users
               /\ store'.p2p_users[k] = store.p2p_users[k]
            \/ \E h \in Handlers :
                 /\ UserUpsertCompletes(h, k)
                 /\ store'.p2p_users[k] = Head(todo[h]).val
      ]_vars

\* Two overlapping calls have upserted user 1 with different attributes;
\* the store holds the row of the second one.
C11_Witness ==
    /\ \E i \in 1..Len(wlog[1]) : \E j \in 1..Len(wlog[2]) :
          /\ wlog[1][i].op = "p2p_users"
          /\ wlog[2][j].op = "p2p_users"
          /\ wlog[1][i].key = 1
          /\ wlog[2][j].key = 1
          /\ wlog[1][i].val # wlog[2][j].val
          /\ store.p2p_users[1] = wlog[2][j].val
    /\ pc[1] = "storing"
    /\ pc[2] = "storing"

\* The upstream answered handler h's call with a non-zero ret_code.
Rejected(h) == reply[h].ret_code # 0

\* C12: a call whose upstream response carries a non-zero ret_code fails
\* with an error that carries the upstream ret_msg, and from its start to
\* its failure the call writes or changes no row of any table.
C12_RejectedWritesNothing ==
    [][\A h \in Handlers :
         /\ Rejected(h)' =>
               /\ pc'[h] \in {"failed", "idle"}
               /\ err'[h] = BybitApiError(reply'[h].ret_msg)
               /\ idx'[h] = 0
               /\ wlog'[h] = <<>>
         /\ pc[h] = "fetching" => store' = store
         /\ (Rejected(h) /\ pc[h] = "failed") => store' = store
      ]_vars

\* The BUY call of a trigger was rejected with a page attached; the store
\* holds the rows of the SELL call only.
C12_Witness ==
    /\ phase[1] = "BUY"
    /\ pc[1] = "failed"
    /\ reply[1] = [ret_code |-> 10006, ret_msg |-> "Too many visits"]
    /\ err[1] = "Bybit API error: Too many visits"
    /\ OfferKeys # {}
    /\ \A k \in OfferKeys : k[1] < fetchTime[1]

\* Handler h is about to run a statement on a closed connection.
WriteOnClosedStore(h) ==
    /\ pc[h] = "storing"
    /\ todo[h] # <<>>
    /\ Head(todo[h]).op # "throw"
    /\ ~isConnected

\* C13: when the store is unavailable for a write of a page, the call fails
\* with that error, the error reaches the caller (the trigger answers with
\* the failure envelope), and nothing more of the page is written, also
\* when the connection comes back.
C13_StoreUnavailableAborts ==
    [][\A h \in Handlers :
         /\ (WriteOnClosedStore(h) /\ CallSteps(h)) =>
               /\ pc'[h] = "failed"
               /\ err'[h] = "StoreUnavailable"
               /\ store' = store
         /\ (pc[h] = "failed" /\ err[h] = "StoreUnavailable") =>
               /\ store' = store
               /\ pc'[h] # pc[h] => (pc'[h] = "idle" /\ phase'[h] = "error")
         /\ (phase[h] = "error" /\ err[h] = "StoreUnavailable") =>
               (store' = store /\ phase'[h] = "error")
      ]_vars

\* A call failed on the closed connection with a record of its page still
\* unprocessed, and the connection is back.
C13_Witness ==
    /\ pc[1] = "failed"
    /\ err[1] = "StoreUnavailable"
    /\ idx[1] < Len(page[1])
    /\ wlog[1] # <<>>
    /\ isConnected

\* The calls handler h has started for the given side.
CallsOf(h, side) == {c \in taken : c.handler = h /\ c.side = side}

\* C14: a trigger runs the SELL ingestion to completion, then the pause,
\* then the BUY ingestion: the BUY call starts only from the pause, which
\* begins only when the SELL call has returned, and at a clock reading
\* later than the SELL call's; the success envelope is produced only when
\* the BUY call has returned.
C14_SellPauseBuy ==
    [][\A h \in Handlers :
         /\ phase[h] \in {"idle", "SELL", "pause"} =>
               CallsOf(h, TRADE_SIDE_BUY) = {}
         /\ (phase'[h] = "pause" /\ phase[h] # "pause") =>
               /\ phase[h] = "SELL"
               /\ pc[h] = "done"
               /\ todo[h] = <<>>
         /\ phase[h] = "pause" => (pc[h] = "idle" /\ store' = store)
         /\ (phase'[h] = "BUY" /\ phase[h] # "BUY") =>
               /\ phase[h] = "pause"
               /\ pc'[h] = "fetching"
               /\ \A c \in CallsOf(h, TRADE_SIDE_SELL) :
                     fetchTime'[h] > c.fetch_time
         /\ (phase'[h] = "ok" /\ phase[h] # "ok") =>
               /\ phase[h] = "BUY"
               /\ pc[h] = "done"
               /\ todo[h] = <<>>
      ]_vars

\* A trigger has answered with the success envelope after storing a SELL
\* page and, at a later fetch_time, a BUY page.
C14_Witness ==
    /\ phase[1] = "ok"
    /\ \E a, b \in taken :
          /\ a.side = TRADE_SIDE_SELL
          /\ b.side = TRADE_SIDE_BUY
          /\ a.fetch_time < b.fetch_time
          /\ <<a.fetch_time, 1>> \in OfferKeys
          /\ <<b.fetch_time, 1>> \in OfferKeys

\* Handler h issues an upstream request in this step.
IssuesRequest(h) == pc'[h] = "fetching" /\ pc[h] # "fetching"

\* C15: on every path of the service an upstream call is issued either as
\* the first one of the path or directly after a pause step; none follows
\* another upstream call without a pause in between.
C15_PauseBetweenRequests ==
    [][\A h \in Handlers :
         IssuesRequest(h) => phase[h] \in {"idle", "pause", "M_pause"}
      ]_vars

\* A trigger of handler h is in progress.
InProgress(h) == phase[h] \in {"SELL", "pause", "BUY"}

\* C16: ingestion cycles are serial: at no time are two triggers in
\* progress at once.
C16_CyclesSerial ==
    \A g, h \in Handlers : (g # h) => ~(InProgress(g) /\ InProgress(h))

\* C17: every ingestion call issues exactly one outbound request, whether
\* the request succeeds or fails; the count changes only when a new call
\* starts.
C17_OneRequestPerCall ==
    [][/\ \A h \in Handlers :
            /\ pc[h] # "idle" => requests[h] = 1
            /\ requests'[h] # requests[h] =>
                  (IssuesRequest(h) /\ requests'[h] = 1)
      ]_vars

\* The BUY call of a trigger has failed in the client with a transport
\* error, after one request.
C17_Witness ==
    /\ phase[1] = "BUY"
    /\ pc[1] = "failed"
    /\ err[1] = "UpstreamUnavailable"
    /\ requests[1] = 1

\* The record handler h is storing, and whether its fact row is written.
RecordOf(h) == page[h][idx[h]]

FactStored(h) ==
    /\ idx[h] > 0
    /\ \E i \in 1..Len(wlog[h]) : wlog[h][i].op = "p2p_offers"

FactRowOf(h) == store.p2p_offers[<<fetchTime[h], BigIntOf(RecordOf(h).id)>>]

ValidSide(item) ==
    /\ "side" \notin item.absent
    /\ item.side \in {TRADE_SIDE_SELL, TRADE_SIDE_BUY}

\* C18: every stored fact row has side in {0, 1}; a fact row is stored only
\* for a record that carries a side in {0, 1}, and with exactly that value.
C18_SideValidated ==
    /\ \A k \in OfferKeys :
          store.p2p_offers[k].side \in {TRADE_SIDE_SELL, TRADE_SIDE_BUY}
    /\ \A h \in Handlers :
          FactStored(h) =>
             /\ ValidSide(RecordOf(h))
             /\ FactRowOf(h).side = RecordOf(h).side

\* C19: a fact row is stored only for a record whose price parses as a
\* number; a premium that is absent or empty is stored as 0.
C19_PriceRequired ==
    \A h \in Handlers :
       FactStored(h) =>
          /\ parseFloat(Field(RecordOf(h), "price")) # NaB
          /\ FactRowOf(h).price = parseFloat(Field(RecordOf(h), "price"))
          /\ Field(RecordOf(h), "premium") \in {Undefined, ""} =>
                FactRowOf(h).premium = 0

\* The value of a numeral of a few digits.
RECURSIVE IntOf(_)
IntOf(n) == IF n = <<>> THEN 0 ELSE 10 * IntOf(SubSeq(n, 1, Len(n) - 1)) + n[Len(n)]

\* ms is the numeral of a thousand times the value of n.
ThousandTimes(n, ms) ==
    IF n = <<>> THEN ms = <<>>
    ELSE /\ Len(ms) = Len(n) + 3
         /\ SubSeq(ms, 1, Len(n)) = n
         /\ \A i \in (Len(n) + 1)..Len(ms) : ms[i] = 0

\* A string of digits has been normalized.
DigitsNormalized == parsed # <<>> /\ DigitsOnly(dateString)

InDateRange(n) == NumeralLeq(n, NumberOf(LastValidSeconds))

\* C20 (amended): a string of digits of value n, n * 1000 ms within the range
\* of a Date, is normalized to the instant n seconds after the epoch, which
\* is the instant the equivalent ISO-8601 string parses to and, when n is
\* not 0, differs from the instant n milliseconds after the epoch; beyond
\* the range the result is undefined.
C20_DigitsAreSeconds ==
    DigitsNormalized =>
       LET n == NumberOf(dateString)
           d == parsed[1]
       IN  IF InDateRange(n)
           THEN /\ d.defined
                /\ ThousandTimes(n, d.ms)
                /\ n # <<>> => d.ms # n
                /\ Len(n) <= 4 => d = parseValidDate(IsoStringOf(IntOf(n)))
           ELSE d = UndefinedDate

C20_Witness ==
    /\ dateString = <<"9", "0">>
    /\ parsed = <<DateOf(<<9, 0, 0, 0, 0>>)>>
    /\ parseValidDate(IsoStringOf(90)) = DateOf(<<9, 0, 0, 0, 0>>)

\* C20 as stated: every string of digits is normalized to the instant that
\* many seconds after the epoch, and not to the instant that many
\* milliseconds after it.
C20_EveryDigitString ==
    DigitsNormalized =>
       /\ parsed[1].defined
       /\ ThousandTimes(NumberOf(dateString), parsed[1].ms)
       /\ parsed[1].ms # NumberOf(dateString)

\* The last logout of a record is given and is neither a string of digits
\* nor a date string.
Unparseable(item) ==
    /\ "lastLogoutTime" \notin item.absent
    /\ item.lastLogoutTime # <<>>
    /\ ~DigitsOnly(item.lastLogoutTime)
    /\ DateParse(item.lastLogoutTime) = UndefinedDate

\* Statement s with the last logout of its fact row taken away.
WithoutLogout(s) ==
    IF s.op = "p2p_offers"
    THEN [s EXCEPT !.val = [s.val EXCEPT !.last_logout = UndefinedDate]]
    ELSE s

\* C21: a record whose last logout cannot be parsed raises no error of its
\* own: its statements are those of the same record with a valid last
\* logout, except that the fact row carries no last_logout; the fact row is
\* stored so; the only failure left is a key already stored; and the
\* records after it are stored.
C21_BadLogoutStored ==
    \A h \in Handlers :
       (idx[h] > 0 /\ Unparseable(RecordOf(h))) =>
          LET item  == RecordOf(h)
              valid == [item EXCEPT !.lastLogoutTime = <<"9">>]
              stmts == wlog[h] \o todo[h]
              like  == RecordStatements(valid, fetchTime[h])
          IN  /\ Len(stmts) = Len(like)
              /\ \A i \in 1..Len(stmts) :
                    /\ stmts[i] = WithoutLogout(like[i])
                    /\ stmts[i].op # "throw"
              /\ FactStored(h) =>
                    /\ <<fetchTime[h], BigIntOf(item.id)>> \in OfferKeys
                    /\ ~FactRowOf(h).last_logout.defined
              /\ pc[h] = "failed" =>
                    /\ err[h] = "DuplicateKey"
                    /\ Head(todo[h]).op = "p2p_offers"
                    /\ Head(todo[h]).key \in OfferKeys

\* A page whose first record has an unparseable last logout was stored to
\* its end: both fact rows are there, the first without last_logout, the
\* second with its own.
C21_Witness ==
    /\ pc[1] = "done"
    /\ page[1] = <<ItemBadLogout, ItemA>>
    /\ <<fetchTime[1], 2>> \in OfferKeys
    /\ <<fetchTime[1], 1>> \in OfferKeys
    /\ ~store.p2p_offers[<<fetchTime[1], 2>>].last_logout.defined
    /\ store.p2p_offers[<<fetchTime[1], 1>>].last_logout = DateOf(<<9, 0, 0, 0, 0>>)
    /\ store.offer_payments # {}

\* Handler h has run every statement of the record it is at.
RecordStored(h) ==
    /\ idx[h] > 0
    /\ pc[h] \in {"storing", "done"}
    /\ todo[h] = <<>>

\* Handler h is at a record that has no tradingPreferenceSet.
NoPreferences(h) == idx[h] > 0 /\ ~RecordOf(h).tradingPreferenceSet

\* The offer_payments keys the payments list of handler h's record asks for.
PaymentRowsOf(h) ==
    {<<fetchTime[h], BigIntOf(RecordOf(h).id), parseInt(PaymentsOf(RecordOf(h))[i])>> :
        i \in 1..Len(PaymentsOf(RecordOf(h)))}

\* C22: while a record without tradingPreferenceSet is ingested no step
\* changes trading_preferences; once its statements have run, its fact row
\* and its offer_payments rows are stored; it fails only on a key already
\* stored, never for the lack of the preferences.
C22_NoPreferencesNoRow ==
    [][\A h \in Handlers :
          /\ (NoPreferences(h) /\ idx'[h] = idx[h] /\ page'[h] = page[h])
                => store'.trading_preferences = store.trading_preferences
          /\ (NoPreferences(h) /\ RecordStored(h))'
                => /\ (<<fetchTime[h], BigIntOf(RecordOf(h).id)>> \in OfferKeys)'
                   /\ (PaymentRowsOf(h) \subseteq store.offer_payments)'
                   /\ (\A i \in 1..Len(wlog[h]) :
                          wlog[h][i].op # "trading_preferences")'
          /\ (NoPreferences(h) /\ pc[h] = "failed")'
                => /\ err'[h] = "DuplicateKey"
                   /\ (Head(todo[h]).key \in OfferKeys)'
      ]_vars

\* A record with preferences, then one without: the page is stored to its
\* end, trading_preferences holds the first record's row only, and the
\* second record's fact row and two offer_payments rows are there.
C22_Witness ==
    /\ pc[1] = "done"
    /\ page[1] = <<ItemA, ItemC>>
    /\ DOMAIN store.trading_preferences = {<<fetchTime[1], 1>>}
    /\ <<fetchTime[1], 2>> \in OfferKeys
    /\ {<<fetchTime[1], 2, 165>>, <<fetchTime[1], 2, 14>>} \subseteq store.offer_payments

\* The offer_payments rows stored under the key of handler h's record.
StoredPaymentRows(h) ==
    {k \in store.offer_payments :
        k[1] = fetchTime[h] /\ k[2] = BigIntOf(RecordOf(h).id)}

\* C23: once a record with payments list P is stored, the offer_payments
\* rows under its (fetch_time, offer_id) are exactly one per distinct
\* integer of P, and payment_methods has a row for each of them; no step of
\* a record whose list is empty or missing changes offer_payments or
\* payment_methods.
C23_PaymentRows ==
    [][\A h \in Handlers :
          /\ RecordStored(h)'
                => /\ (StoredPaymentRows(h) = PaymentRowsOf(h))'
                   /\ (\A k \in PaymentRowsOf(h) :
                          k[3] \in DOMAIN store.payment_methods)'
          /\ (/\ idx[h] > 0
              /\ PaymentsOf(RecordOf(h)) = <<>>
              /\ idx'[h] = idx[h]
              /\ page'[h] = page[h])
                => /\ store'.offer_payments = store.offer_payments
                   /\ store'.payment_methods = store.payment_methods
      ]_vars

\* A record listing 165, 14 and 165 again is stored: two offer_payments rows
\* under its key and both payment methods known.
C23_Witness ==
    /\ RecordStored(1)
    /\ RecordOf(1) = ItemC
    /\ StoredPaymentRows(1) = {<<fetchTime[1], 2, 165>>, <<fetchTime[1], 2, 14>>}
    /\ DOMAIN store.payment_methods = {165, 14}

\* The fact rows of the store that match an aggregation request served at
\* `now`: its token, currency and side, within its window.
MatchingRows ==
    {k \in OfferKeys :
        /\ store.p2p_offers[k].token_id = request.tokenId
        /\ store.p2p_offers[k].currency_id = request.currencyId
        /\ store.p2p_offers[k].side = request.side
        /\ k[1] >= now - request.hours * HourTicks
        /\ k[1] <= now}

\* The answer to an aggregation request is one bucket per boundary in
\* `boundaries`, ascending, each with a count of at least 1 and
\* min <= average <= max, the counts summing to `total`.
BucketsCover(data, boundaries, total) ==
    /\ {data[i].time_bucket : i \in 1..Len(data)} = boundaries
    /\ Len(data) = Cardinality(boundaries)
    /\ \A i, j \in 1..Len(data) :
          i < j => data[i].time_bucket < data[j].time_bucket
    /\ \A i \in 1..Len(data) :
          /\ data[i].offer_count >= 1
          /\ data[i].min_price * data[i].avg_price.count <= data[i].avg_price.sum
          /\ data[i].avg_price.sum <= data[i].max_price * data[i].avg_price.count
    /\ SumOf([i \in 1..Len(data) |-> data[i].offer_count], 1..Len(data)) = total
    /\ boundaries = {} => data = <<>>

\* The matching rows that have a bridge row for payment method 165.
MatchingMethodRows ==
    {k \in MatchingRows : <<k[1], k[2], 165>> \in store.offer_payments}

SummaryRows(side) ==
    {k \in OfferKeys :
        /\ <<k[1], k[2], 165>> \in store.offer_payments
        /\ store.p2p_offers[k].token_id = request.tokenId
        /\ store.p2p_offers[k].currency_id = request.currencyId
        /\ store.p2p_offers[k].side = side
        /\ k[1] >= now - 24 * HourTicks
        /\ k[1] <= now}

\* One side of a summary is taken over exactly the rows S.
SummarizedOver(group, S) ==
    /\ group.count = Cardinality(S)
    /\ S # {} =>
          /\ group.min_price = Min({store.p2p_offers[k].price : k \in S})
          /\ group.max_price = Max({store.p2p_offers[k].price : k \in S})
          /\ group.avg_price =
                AVG([k \in S |-> store.p2p_offers[k].price], S)

\* C25: for any store content the BUY and the SELL count of the market
\* summary equal the number of fact rows of the requested token pair with
\* that side in the trailing 24 hours, and min, max and average are taken
\* over exactly those rows, however many rows the store holds.  (Stated
\* here in the code's favour: only rows offering payment method 165 count.)
C25_SummaryCountsAllRows ==
    (request.op = "summary" /\ response.success) =>
        /\ SummarizedOver(response.data.buy_offers, SummaryRows(TRADE_SIDE_BUY))
        /\ SummarizedOver(response.data.sell_offers, SummaryRows(TRADE_SIDE_SELL))

\* The rational x equals num / den.
EqualsRatio(x, num, den) == x.num * den = num * x.den

\* BUY rows priced 100 and 102, SELL rows priced 105 and 108 (price units
\* of 0.01), all within the window.
SpreadExample ==
    StoreOf({f \in FactPool : f.key \in {<<40, 1>>, <<41, 1>>, <<42, 2>>, <<44, 3>>}})

\* C26: the spread of a market summary is
\* (min SELL price - max BUY price) / max BUY price x 100 when both extremes
\* are positive and exactly 0 otherwise; BUY rows priced 1.00 and 1.02 with
\* SELL rows priced 1.05 and 1.08 give (1.05 - 1.02) / 1.02 x 100.
C26_Spread ==
    (request.op = "summary" /\ response.success) =>
        LET d == response.data IN
        /\ IF d.sell_offers.min_price > 0 /\ d.buy_offers.max_price > 0
           THEN EqualsRatio(d.spread,
                            (d.sell_offers.min_price - d.buy_offers.max_price) * 100,
                            d.buy_offers.max_price)
           ELSE d.spread.num = 0
        /\ (d.buy_offers.count = 0 \/ d.sell_offers.count = 0) => d.spread.num = 0
        /\ (store = SpreadExample /\ request.tokenId = TokenId) =>
              /\ d.buy_offers.max_price = 102
              /\ d.sell_offers.min_price = 105
              /\ EqualsRatio(d.spread, (105 - 102) * 100, 102)

\* The summary of the example store: spread 300 / 102, about 2.94.
C26_Witness ==
    /\ request.op = "summary"
    /\ response.success
    /\ store = SpreadExample
    /\ request.tokenId = TokenId
    /\ response.data.buy_offers.count = 2
    /\ response.data.sell_offers.count = 2
    /\ response.data.spread = [num |-> 300, den |-> 102]

\* The logical group of a returned row or of a fact row:
\* (user, token, currency, side, offer).
LogicalGroup(r, offer_id) ==
    <<r.user_id, r.token_id, r.currency_id, r.side, offer_id>>

\* The group the query forms: the logical group and the account.
AccountGroup(r, offer_id) ==
    <<r.user_id, r.account_id, r.token_id, r.currency_id, r.side, offer_id>>

\* The fact rows of a logical group.
RowsOfGroup(g) ==
    {k \in OfferKeys : LogicalGroup(store.p2p_offers[k], k[2]) = g}

\* The fact rows of an account group that have a bridge row for payment
\* method 165.
MethodRowsOfGroup(g) ==
    {k \in OfferKeys :
        /\ <<k[1], k[2], 165>> \in store.offer_payments
        /\ AccountGroup(store.p2p_offers[k], k[2]) = g}

C28_NoInternalErrorText ==
    (request.op # "none" /\ ~response.success) =>
        /\ response.message # ""
        /\ response.message # NotActive

\* C29: monitorTokenPairs isolates a failure to its pair: the error of one
\* pair never rejects the call, and the step that leaves a failed SELL or
\* BUY ingestion skips the rest of that pair and either starts the SELL
\* ingestion of the next element of the list or, after the last element,
\* returns.
C29_FailureIsolated ==
    [][\A h \in Handlers :
          /\ phase'[h] # "rejected"
          /\ (phase[h] \in {"M_SELL", "M_BUY"} /\ pc[h] = "failed") =>
                 IF Len(pair) > 1
                 THEN /\ pair' = Tail(pair)
                      /\ phase'[h] = "M_SELL"
                      /\ pc'[h] = "fetching"
                 ELSE /\ pair' = <<>>
                      /\ phase'[h] = "returned"]_vars

\* connect() has not succeeded, or close() has completed.
NotConnected == database.last \in {"new", "connect failed", "closed"}

=============================================================================
